---- MODULE Spec2Model ----
(***************************************************************************)
(* Position lifecycle and risk sizing of the trading bot.                  *)
(*                                                                         *)
(* main.py runs ONE of two drivers (main_async): the backtest              *)
(* (Backtester.run_backtest) or the live loop (run_live_or_paper:          *)
(* StrategyManager.scan_and_trade, ExitManager.manage_positions over a     *)
(* PortfolioManager).  `mode` is that choice.                              *)
(*                                                                         *)
(* Numbers.  The program computes in floats; the model computes in fixed   *)
(* point and truncates (floor) after every multiplication or division:     *)
(*   prices and money   integer cents                                      *)
(*   quantities         integer 1/QtyScale units                           *)
(*   percentages        basis points (1/10000)                             *)
(* Comparisons that the code makes between quotients are made here by      *)
(* cross-multiplication whenever that is exact.                            *)
(***************************************************************************)
EXTENDS Integers, Sequences, FiniteSets, TLC

VARIABLES
    mode,            \* "backtest" | "live"                      main.py:111-119
    pc,              \* position of the running driver
    bars,            \* the klines seen so far (df.iloc[:i+1] / the live feed)
    \* ---- Backtester.run_backtest locals
    balances,        \* strategy -> cash                         backtest.py:109
    open_positions,  \* list of position dicts                   backtest.py:113
    last_entry_bar,  \* strategy -> bar index of the last entry  backtest.py:114
    equity_curve,    \* one total per processed bar              backtest.py:116
    trades_count,    \* strategy -> number of entries            backtest.py:117
    summary,         \* the returned summary (NoSummary until done)
    bt_entries,      \* history: every do_enter that returned True
    bt_exits,        \* history: every credit made by an exit or the forced exit
    \* ---- the live objects
    state,           \* PortfolioManager.state: positions, balances, ledger
    trailing,        \* ExitManager.trailing: symbol -> highest
    clock,           \* time.time() in ms, as save_position reads it
    ticks,           \* main-loop iterations started
    orders,          \* history: market orders the exchange filled
    trades_saved,    \* history: reporter.save_trade records
    lv_seen,         \* history: pid -> what the last manage_positions pass computed
    api_calls,       \* PortfolioManager calls made by a direct caller
    guard,           \* RiskManager's daily guard, its clock and equity source
    universe,        \* the configured symbols, in scan order        main.py:41
    log,             \* history: what the except clauses of the scan and of
                     \* exit management logged
    resumed,         \* history: symbols a scan reached after an earlier
                     \* symbol of the same scan had raised
    disk,            \* portfolio.json: what _save_state wrote last
    rejected,        \* history: orders create_market_order rejected (core.py:184-187)
    \* ---- a direct call of a sizing or rounding function
    calc             \* the last call: its arguments and its result

btvars == <<balances, open_positions, last_entry_bar, equity_curve,
            trades_count, summary, bt_entries, bt_exits>>
lvvars == <<state, trailing, clock, ticks, orders, trades_saved, lv_seen, api_calls,
            guard, universe, log, resumed, disk>>
vars == <<mode, pc, bars, btvars, lvvars, rejected, calc>>

----------------------------------------------------------------------------
(* Scales (not program constants: units of the fixed-point encoding).      *)
QtyScale == 100 * 100
BpsOne == 100 * 100
Cents == 10 * 10

(* Bounds of the model.                                                    *)
WarmupBars == 20     \* leading bars of the feed that are flat at WarmupClose
TailBars == 5        \* bars after the warm-up, each drawn from Closes
MaxLiveTicks == 2    \* main-loop iterations of a live run
MaxSaves == 2        \* positions saved on a portfolio
MaxApiCalls == 4     \* direct PortfolioManager calls in a run of SpecPortfolio
MaxDays == 2         \* UTC days a run of SpecGuard spans
MaxWindow == 3       \* bars of a window handed to a signal function directly

WarmupClose == 100 * Cents
Closes == {100 * Cents, 102 * Cents, 103 * Cents, 109 * Cents}
QuietClose == WarmupClose + 1
MaxBars == WarmupBars + TailBars

(* Configuration and literals of the program, in the model's units.        *)
InitialBalance == 100000        \* trade.initial_balance = 1000.00
WeightMomentum == 5000          \* backtest.weight_momentum = 0.5, normalised
WeightMa == 5000                \* backtest.weight_ma = 0.5, normalised
PerTradePct == 1000             \* trade.per_trade_pct = 10 %
TakeProfitPct == 500            \* trade.take_profit_pct = 5 %
StopLossPct == 200              \* trade.stop_loss_pct = 2 %
TrailingStopPct == 100          \* trade.trailing_stop_pct = 1 %
TakerFeePct == 4                \* trade.taker_fee_pct = 0.0004
SlippagePct == 5                \* trade.slippage_pct = 0.0005
MinAtrPct == 5                  \* trade.min_atr_pct = 0.0005
EntryCooldownBars == 2          \* backtest.entry_cooldown_bars
AtrLookback == 14               \* self._atr_pct(win, 14)
EntryLookbackMin == 2           \* trade.entry_lookback_min
EntryChangePct == 3             \* trade.entry_change_pct, in percent
BtMaShort == 9                  \* self._sig_ma(win, 9, 21)
BtMaLong == 21
NeverEntered == 0 - 1000000000  \* last_entry_bar.get(key, -10**9)
PerTradeRiskPct == 100          \* risk.per_trade_risk_pct = 1 %
MaxDailyDrawdownPct == 0        \* risk.max_daily_drawdown_pct, off by default
LiveMaShort == 9                \* strategy.ma_short
LiveMaLong == 21                \* strategy.ma_long
RsiPeriod == 14                 \* strategy.rsi_period
RsiBuy == 55                    \* strategy.rsi_buy
MacdFast == 3                   \* strategy.macd_fast
MacdSlow == 6                   \* strategy.macd_slow
MacdSignal == 2                 \* strategy.macd_signal
UseRsiFilter == TRUE            \* strategy.use_rsi_filter
UseMacdFilter == TRUE           \* strategy.use_macd_filter
StepSize == 10                  \* LOT_SIZE.stepSize = 0.001
MinQty == 10                    \* LOT_SIZE.minQty = 0.001
MinNotional == 1000             \* MIN_NOTIONAL.minNotional = 10.00

Strategies == {"momentum", "ma"}
None == "None"              \* no exit reason
Undefined == 0 - 1          \* an indicator that returned None
NoEntry == [ok |-> FALSE]   \* do_enter returned False / was not called
NoSummary == [returned |-> FALSE]
NoCalc == [fn |-> "none"]     \* no direct call made

----------------------------------------------------------------------------
(* Helpers.                                                                *)
Max(a, b) == IF a >= b THEN a ELSE b
Min(a, b) == IF a <= b THEN a ELSE b
Abs(a) == IF a >= 0 THEN a ELSE 0 - a

RECURSIVE SumTo(_, _, _)
\* sum of f[k] for k in lo..hi (0 when the range is empty)
SumTo(f, lo, hi) == IF lo > hi THEN 0 ELSE f[hi] + SumTo(f, lo, hi - 1)

MulBps(x, b) == (x * b) \div BpsOne

Bar(c) == [high |-> c, low |-> c, close |-> c]
CloseOf(win) == [k \in 1..Len(win) |-> win[k].close]

----------------------------------------------------------------------------
(* Backtester indicators and signals, over a window win (most recent last) *)

\* true range of bar k (k >= 2): tr[k-2] of _atr_pct
TrueRange(win, k) ==
    Max(win[k].high - win[k].low,
        Max(Abs(win[k].high - win[k - 1].close), Abs(win[k].low - win[k - 1].close)))

\* _atr_pct: None if too short or last close <= 0, else mean(tr[-lookback:])/last,
\* in basis points (floor)
AtrPct(win, lookback) ==
    IF Len(win) < lookback + 1 THEN Undefined
    ELSE LET n == Len(win)
             tr == [k \in 2..n |-> TrueRange(win, k)]
             s == SumTo(tr, n - lookback + 1, n)
             last == win[n].close
         IN  IF last <= 0 THEN Undefined ELSE (s * BpsOne) \div (lookback * last)

\* a gate that lets every bar through
AtrGateBlocks_Never(win) == FALSE

\* the gate of run_backtest: `continue` iff atrp is None or below min_atr_pct
AtrGateBlocks(win) ==
    LET atrp == AtrPct(win, AtrLookback)
    IN  atrp = Undefined \/ atrp < MinAtrPct

\* a momentum signal that excludes the boundary
SigMomentum_Strict(win, lookback_min, change_pct) ==
    IF Len(win) < lookback_min + 1 THEN FALSE
    ELSE LET start == win[Len(win) - lookback_min].close
             last == win[Len(win)].close
         IN  IF start <= 0 THEN FALSE
             ELSE (last - start) * 100 > change_pct * start

\* Backtester._sig_momentum
SigMomentum(win, lookback_min, change_pct) ==
    IF Len(win) < lookback_min + 1 THEN FALSE
    ELSE LET start == win[Len(win) - lookback_min].close
             last == win[Len(win)].close
         IN  IF start <= 0 THEN FALSE
             ELSE (last - start) * 100 >= change_pct * start

\* mean of the last n closes of win, as <<sum, count>> (iloc[-n:] takes what
\* there is when the window is shorter)
TailSum(win, n) ==
    LET m == Min(n, Len(win))
    IN  <<SumTo(CloseOf(win), Len(win) - m + 1, Len(win)), m>>

\* _sig_ma(df, s, l)
SigMa(win, s, l) ==
    IF Len(win) < l THEN FALSE
    ELSE LET ms == TailSum(win, s)
             ml == TailSum(win, l)
         IN  ms[1] * ml[2] > ml[1] * ms[2]

----------------------------------------------------------------------------
(* Backtester: exits                                                       *)

\* pos["highest"] = max(pos.get("highest", pos["entry_price"]), px)
WithHighest(pos, px) == [pos EXCEPT !.highest = Max(pos.highest, px)]

\* the TP / SL / TRAIL chain, on a position whose highest is already updated
BtExitReason(pos, px) ==
    LET trail == MulBps(pos.highest, BpsOne - TrailingStopPct)
    IN  IF px >= pos.tp_price THEN "TP"
        ELSE IF px <= pos.sl_price THEN "SL"
        ELSE IF px <= trail THEN "TRAIL"
        ELSE None

\* the fill price of a TP/SL/TRAIL exit: ex_px = px
BtExitPrice(px) == px

\* the fill price of the forced exit: last_px * (1 - slippage_pct)
ForcedExitPrice(last_px) == MulBps(last_px, BpsOne - SlippagePct)

Proceeds(ex_px, qty) == (ex_px * qty) \div QtyScale
\* proceeds - fee_exit
Credit(ex_px, qty) ==
    LET proceeds == Proceeds(ex_px, qty)
    IN  proceeds - MulBps(proceeds, TakerFeePct)

ExitRecord(pos, reason, px, ex_px, i) ==
    [id |-> pos.id, strategy |-> pos.strategy, reason |-> reason, px |-> px,
     qty |-> pos.qty, tp_price |-> pos.tp_price, sl_price |-> pos.sl_price,
     highest |-> pos.highest,
     ex_px |-> ex_px, credit |-> Credit(ex_px, pos.qty),
     pnl |-> Credit(ex_px, pos.qty)
             - (Proceeds(pos.entry_price, pos.qty) + pos.entry_fee),
     index |-> i]

RECURSIVE CreditsOf(_, _)
\* total credited to strategy s by a list of exit records
CreditsOf(recs, s) ==
    IF recs = <<>> THEN 0
    ELSE (IF Head(recs).strategy = s THEN Head(recs).credit ELSE 0)
         + CreditsOf(Tail(recs), s)

RECURSIVE MapSeq(_, _)
MapSeq(Op(_), s) == IF s = <<>> THEN <<>> ELSE <<Op(Head(s))>> \o MapSeq(Op, Tail(s))

----------------------------------------------------------------------------
(* Backtester: entries                                                     *)

HasOpen(positions, strategy_name) ==
    \E k \in 1..Len(positions) : positions[k].strategy = strategy_name

\* can_enter, without the cooldown test
CanEnter_NoCooldown(strategy_name, i, last, positions) ==
    ~HasOpen(positions, strategy_name)

\* can_enter that looks at the positions of every strategy
CanEnter_AnyOpen(strategy_name, i, last, positions) ==
    /\ (i - last[strategy_name]) >= EntryCooldownBars
    /\ positions = <<>>

\* can_enter(strategy_name)
CanEnter(strategy_name, i, last, positions) ==
    /\ (i - last[strategy_name]) >= EntryCooldownBars
    /\ ~HasOpen(positions, strategy_name)

\* do_enter's sizing: the position it would record for balance bal at price px,
\* or NoEntry when it returns False
BtSizing(bal, px) ==
    LET alloc == MulBps(bal, PerTradePct)
        entry == MulBps(px, BpsOne + SlippagePct)
        qty0 == (alloc * QtyScale) \div entry
        fee0 == MulBps(Proceeds(entry, qty0), TakerFeePct)
        need0 == Proceeds(entry, qty0) + fee0
        shrink == need0 > bal
        qty == IF shrink
               THEN (bal * QtyScale * BpsOne) \div (entry * (BpsOne + TakerFeePct))
               ELSE qty0
        fee_e == MulBps(Proceeds(entry, qty), TakerFeePct)
        need == Proceeds(entry, qty) + fee_e
    IN  IF alloc <= 0 \/ entry <= 0 THEN NoEntry
        ELSE IF qty <= 0 \/ need > bal THEN NoEntry
        ELSE [ok |-> TRUE, entry_price |-> entry, qty |-> qty, entry_fee |-> fee_e, need |-> need,
              tp_price |-> MulBps(entry, BpsOne + TakeProfitPct),
              sl_price |-> MulBps(entry, BpsOne - StopLossPct)]

\* the signal run_backtest evaluates for a strategy
BtSignal(strategy_name, win) ==
    IF strategy_name = "momentum"
    THEN SigMomentum(win, EntryLookbackMin, EntryChangePct)
    ELSE SigMa(win, BtMaShort, BtMaLong)

\* the position run_backtest opens for strategy_name on bar i, or NoEntry
BtEntry(strategy_name, win, i, bal, last, positions) ==
    IF AtrGateBlocks(win) THEN NoEntry
    ELSE IF ~CanEnter(strategy_name, i, last, positions) THEN NoEntry
    ELSE IF ~BtSignal(strategy_name, win) THEN NoEntry
    ELSE BtSizing(bal, win[Len(win)].close)

----------------------------------------------------------------------------
(* Backtester.run_backtest as a state machine.  pc: "bar" (top of the      *)
(* loop), "exits", "snapshot", "entries" (inside iteration i), "done".     *)

CurIndex == Len(bars) - 1               \* the loop index i
CurPx == bars[Len(bars)].close          \* px = float(win["close"].iloc[-1])

\* the closes the feed may deliver as bar number n (0-based); the first bar
\* after the warm-up may also be a one-cent move, too quiet for the ATR gate
NextCloses(n) ==
    IF n < WarmupBars THEN {WarmupClose}
    ELSE IF n = WarmupBars THEN Closes \cup {QuietClose}
    ELSE Closes

Weight(s) == IF s = "momentum" THEN WeightMomentum ELSE WeightMa

BtInit ==
    /\ pc = "bar"
    /\ bars = <<>>
    /\ balances = [s \in Strategies |-> MulBps(InitialBalance, Weight(s))]
    /\ open_positions = <<>>
    /\ last_entry_bar = [s \in Strategies |-> NeverEntered]
    /\ equity_curve = <<>>
    /\ trades_count = [s \in Strategies |-> 0]
    /\ summary = NoSummary
    /\ bt_entries = <<>>
    /\ bt_exits = <<>>

\* the backtester's locals in a live run
BtIdle ==
    /\ balances = [s \in Strategies |-> 0]
    /\ open_positions = <<>>
    /\ last_entry_bar = [s \in Strategies |-> NeverEntered]
    /\ equity_curve = <<>>
    /\ trades_count = [s \in Strategies |-> 0]
    /\ summary = NoSummary
    /\ bt_entries = <<>>
    /\ bt_exits = <<>>

\* get_klines failed or returned nothing: run_backtest returns {}
BtNoData ==
    /\ mode = "backtest" /\ pc = "bar" /\ bars = <<>>
    /\ pc' = "done"
    /\ UNCHANGED <<mode, calc, rejected, bars, btvars, lvvars>>

\* for i in range(len(df)): win = df.iloc[:i+1]
BtNextBar ==
    /\ mode = "backtest" /\ pc = "bar" /\ Len(bars) < MaxBars
    /\ \E c \in NextCloses(Len(bars)) : bars' = Append(bars, Bar(c))
    /\ pc' = "exits"
    /\ UNCHANGED <<mode, calc, rejected, btvars, lvvars>>

\* "exits first": the loop over open_positions
BtExits ==
    /\ mode = "backtest" /\ pc = "exits"
    /\ LET px == CurPx
           upd == MapSeq(LAMBDA p : WithHighest(p, px), open_positions)
           closed == SelectSeq(upd, LAMBDA p : BtExitReason(p, px) # None)
           recs == MapSeq(LAMBDA p : ExitRecord(p, BtExitReason(p, px), px,
                                                BtExitPrice(px), CurIndex), closed)
       IN  /\ open_positions' = SelectSeq(upd, LAMBDA p : BtExitReason(p, px) = None)
           /\ balances' = [s \in Strategies |-> balances[s] + CreditsOf(recs, s)]
           /\ bt_exits' = bt_exits \o recs
    /\ pc' = "snapshot"
    /\ UNCHANGED <<mode, calc, rejected, bars, last_entry_bar, equity_curve, trades_count, summary,
                   bt_entries, lvvars>>

\* a snapshot of the cash alone
Equity_CashOnly(bal, positions, px) == bal["momentum"] + bal["ma"]

\* total_cash + mkt_value at price px
Equity(bal, positions, px) ==
    SumTo([k \in 1..2 |-> IF k = 1 THEN bal["momentum"] ELSE bal["ma"]], 1, 2)
    + SumTo([k \in 1..Len(positions) |-> Proceeds(px, positions[k].qty)],
            1, Len(positions))

\* "equity snapshot"
BtSnapshot ==
    /\ mode = "backtest" /\ pc = "snapshot"
    /\ equity_curve' = Append(equity_curve, Equity(balances, open_positions, CurPx))
    /\ pc' = "entries"
    /\ UNCHANGED <<mode, calc, rejected, bars, balances, open_positions, last_entry_bar,
                   trades_count, summary, bt_entries, bt_exits, lvvars>>

\* the locals after `if can_enter(s) and signal: do_enter(s)` for strategy s,
\* from the locals st = [bal, pos, last, cnt, log]
AfterEntry(s, st, win, i) ==
    LET e == BtEntry(s, win, i, st.bal[s], st.last, st.pos)
        id == Len(st.log) + 1
    IN  IF ~e.ok THEN st
        ELSE [bal |-> [st.bal EXCEPT ![s] = @ - e.need],
              pos |-> Append(st.pos,
                        [id |-> id, strategy |-> s, entry_price |-> e.entry_price,
                         qty |-> e.qty, entry_index |-> i, tp_price |-> e.tp_price,
                         sl_price |-> e.sl_price, highest |-> e.entry_price,
                         entry_fee |-> e.entry_fee]),
              last |-> [st.last EXCEPT ![s] = i],
              cnt |-> [st.cnt EXCEPT ![s] = @ + 1],
              log |-> Append(st.log,
                        [id |-> id, strategy |-> s, index |-> i,
                         entry_price |-> e.entry_price, qty |-> e.qty,
                         need |-> e.need, entry_fee |-> e.entry_fee])]

\* "evaluate entries": the ATR gate, then momentum, then ma
BtEntries ==
    /\ mode = "backtest" /\ pc = "entries"
    /\ LET st0 == [bal |-> balances, pos |-> open_positions, last |-> last_entry_bar,
                   cnt |-> trades_count, log |-> bt_entries]
           st1 == AfterEntry("momentum", st0, bars, CurIndex)
           st2 == AfterEntry("ma", st1, bars, CurIndex)
       IN  /\ balances' = st2.bal
           /\ open_positions' = st2.pos
           /\ last_entry_bar' = st2.last
           /\ trades_count' = st2.cnt
           /\ bt_entries' = st2.log
    /\ pc' = "bar"
    /\ UNCHANGED <<mode, calc, rejected, bars, equity_curve, summary, bt_exits, lvvars>>

\* a run that ends without the force exit: nothing is credited at the last bar
ForceExitRecords_Skipped(positions, last_px, i) == <<>>

\* the credits of "force exit all" over the positions still in open_positions
ForceExitRecords(positions, last_px, i) ==
    MapSeq(LAMBDA p : ExitRecord(p, "FORCE", last_px, ForcedExitPrice(last_px), i),
           positions)

\* int(time.time()) when the summary is written, in two runs of one input
WallClocks == {0, 1}

\* a summary that carries the time it was written at
BtSummary_Stamped(final_total, counts, now) ==
    [returned |-> TRUE, initial_balance |-> InitialBalance,
     final_balance |-> final_total, total_pnl |-> final_total - InitialBalance,
     trades |-> counts, ts |-> now]

\* the summary dict; the wall clock only names the file it is dumped to
BtSummary(final_total, counts, now) ==
    [returned |-> TRUE, initial_balance |-> InitialBalance,
     final_balance |-> final_total, total_pnl |-> final_total - InitialBalance,
     trades |-> counts]

\* the bars are exhausted: force exit, summary, return
BtForceExit ==
    /\ mode = "backtest" /\ pc = "bar" /\ Len(bars) >= 1
    /\ LET recs == ForceExitRecords(open_positions, CurPx, CurIndex)
           final == [s \in Strategies |-> balances[s] + CreditsOf(recs, s)]
           final_total == final["momentum"] + final["ma"]
       IN  /\ balances' = final
           /\ bt_exits' = bt_exits \o recs
           /\ \E now \in WallClocks :
                 summary' = BtSummary(final_total, trades_count, now)
    /\ pc' = "done"
    /\ UNCHANGED <<mode, calc, rejected, bars, open_positions, last_entry_bar, equity_curve,
                   trades_count, bt_entries, lvvars>>

\* one iteration of the bar loop as a function of the locals
\* loc = [bal, pos, last, cnt, log, exits, curve] and the window win
BarStep(loc, win) ==
    LET px == win[Len(win)].close
        i == Len(win) - 1
        upd == MapSeq(LAMBDA p : WithHighest(p, px), loc.pos)
        keep == SelectSeq(upd, LAMBDA p : BtExitReason(p, px) = None)
        recs == MapSeq(LAMBDA p : ExitRecord(p, BtExitReason(p, px), px,
                                             BtExitPrice(px), i),
                       SelectSeq(upd, LAMBDA p : BtExitReason(p, px) # None))
        bal == [s \in Strategies |-> loc.bal[s] + CreditsOf(recs, s)]
        st0 == [bal |-> bal, pos |-> keep, last |-> loc.last, cnt |-> loc.cnt,
                log |-> loc.log]
        st2 == AfterEntry("ma", AfterEntry("momentum", st0, win, i), win, i)
    IN  [bal |-> st2.bal, pos |-> st2.pos, last |-> st2.last, cnt |-> st2.cnt,
         log |-> st2.log, exits |-> loc.exits \o recs,
         curve |-> Append(loc.curve, Equity(bal, keep, px))]

RECURSIVE RunLoop(_, _, _)
\* the bar loop from bar number n (1-based) of df on
RunLoop(loc, df, n) ==
    IF n > Len(df) THEN loc
    ELSE CHOOSE r \in {RunLoop(nxt, df, n + 1) : nxt \in {BarStep(loc, SubSeq(df, 1, n))}} :
            TRUE

\* the locals of run_backtest when its bar loop over the klines df has ended,
\* for the initial strategy balances bal
RunLocals(bal, df) ==
    RunLoop([bal |-> bal,
             pos |-> <<>>,
             last |-> [s \in Strategies |-> NeverEntered],
             cnt |-> [s \in Strategies |-> 0],
             log |-> <<>>, exits |-> <<>>, curve |-> <<>>], df, 1)

\* the rest of run_backtest, from the locals loc, finishing at wall-clock time
\* now: what it returns and what it logged
RunReturn(loc, df, now) ==
    LET recs == ForceExitRecords(loc.pos, df[Len(df)].close, Len(df) - 1)
        final == [s \in Strategies |-> loc.bal[s] + CreditsOf(recs, s)]
    IN  [entries |-> loc.log, exits |-> loc.exits \o recs, equity |-> loc.curve,
         balances |-> final,
         summary |-> BtSummary(final["momentum"] + final["ma"], loc.cnt, now)]

\* run_backtest over the klines df, with the configured weights
RunBacktest(df, now) ==
    RunReturn(RunLocals([s \in Strategies |-> MulBps(InitialBalance, Weight(s))], df),
              df, now)

BtNext == BtNoData \/ BtNextBar \/ BtExits \/ BtSnapshot \/ BtEntries \/ BtForceExit

----------------------------------------------------------------------------
(* The live objects: PortfolioManager, RiskManager, ExchangeClient,        *)
(* StrategyManager, ExitManager.  One symbol is scanned.                   *)

Symbol == "BTCUSDT"
Universe == <<Symbol>>
EmptyMap == [x \in {} |-> 0]
EmptyState == [positions |-> EmptyMap, balances |-> EmptyMap, ledger |-> <<>>]

\* portfolio.json: absent, or the JSON text json.dump wrote.  A JSON object is
\* a set of key/value pairs, a JSON array a sequence.
NoFile == [exists |-> FALSE]
JsonObject(f) == {<<k, f[k]>> : k \in DOMAIN f}
JsonDict(obj) == [k \in {p[1] : p \in obj} |-> (CHOOSE p \in obj : p[1] = k)[2]]

\* PortfolioManager._save_state: json.dump(self.state, f)
JsonDump(st) ==
    [exists |-> TRUE,
     positions |-> {<<pid, JsonObject(st.positions[pid])>> : pid \in DOMAIN st.positions},
     balances |-> JsonObject(st.balances),
     ledger |-> [j \in 1..Len(st.ledger) |-> JsonObject(st.ledger[j])]]

\* a load that keeps the open positions only
LoadState_OpenOnly(file) ==
    IF ~file.exists THEN EmptyState
    ELSE LET all == JsonDict(file.positions)
         IN  [positions |-> [pid \in {q \in DOMAIN all :
                                        JsonDict(all[q]).status # "closed"} |->
                                JsonDict(all[pid])],
              balances |-> JsonDict(file.balances),
              ledger |-> [j \in 1..Len(file.ledger) |-> JsonDict(file.ledger[j])]]

\* PortfolioManager.__init__ and _load_state: the default state, replaced by
\* json.load(f) when the file exists
LoadState(file) ==
    IF ~file.exists THEN EmptyState
    ELSE LET all == JsonDict(file.positions)
         IN  [positions |-> [pid \in DOMAIN all |-> JsonDict(all[pid])],
              balances |-> JsonDict(file.balances),
              ledger |-> [j \in 1..Len(file.ledger) |-> JsonDict(file.ledger[j])]]

\* the values the external RSI indicator may return for a long-enough window,
\* and whether the external MACD line is above its signal line
RsiValues == {40, 60}
\* how far the ticker price that create_market_order reads a moment later is
\* from the close of the last kline (0.00 or 0.10)
TickerDrifts == {0, Cents \div 10}
Oracles == [rsi : RsiValues, macd_above : BOOLEAN, drift : TickerDrifts]

\* ExchangeClient.get_price inside create_market_order
TickerPrice(win, o) == win[Len(win)].close + o.drift

\* PortfolioManager.get_open_positions (the pids)
GetOpenPositions(st) ==
    {pid \in DOMAIN st.positions : st.positions[pid].status # "closed"}

\* PortfolioManager.get_balance
GetBalance(st, strategy) ==
    IF strategy \in DOMAIN st.balances THEN st.balances[strategy] ELSE 0

\* PortfolioManager has no open_position method: the call in scan_and_trade
\* raises AttributeError
PortfolioHasOpenPosition == FALSE
\* PortfolioManager defines no get_total_equity either
PortfolioHasTotalEquity == FALSE

\* precision = int(round(-math.log10(step))) if step < 1 else 0, for a step in
\* quantity units: round(log10(step)) = k iff 10^(2k-1) < step^2 < 10^(2k+1)
Precision(step) ==
    IF step >= QtyScale THEN 0
    ELSE 4 - (IF step * step < 10 THEN 0
              ELSE IF step * step < 1000 THEN 1
              ELSE IF step * step < 100000 THEN 2
              ELSE IF step * step < 10000000 THEN 3
              ELSE 4)

\* 10^n
RECURSIVE Pow10(_)
Pow10(n) == IF n <= 0 THEN 1 ELSE 10 * Pow10(n - 1)

\* float(f"{x:.{precision}f}"): x to `precision` decimals, to the nearest,
\* a tie to the even digit
FormatDecimals(x, precision) ==
    LET unit == Pow10(4 - precision)
        q == x \div unit
        rem == x % unit
    IN  IF 2 * rem > unit \/ (2 * rem = unit /\ q % 2 = 1)
        THEN (q + 1) * unit
        ELSE q * unit

\* ExchangeClient.round_qty for a symbol whose LOT_SIZE filter is
\* (step, min_qty); quotients are exact in the model
RoundQtyWith(qty, step, min_qty) ==
    IF qty <= 0 THEN 0
    ELSE LET q == IF step > 0
                  THEN FormatDecimals((qty \div step) * step, Precision(step))
                  ELSE qty
         IN  IF min_qty > 0 /\ q < min_qty THEN 0 ELSE q

\* ExchangeClient.round_qty for Symbol
RoundQty(qty) == RoundQtyWith(qty, StepSize, MinQty)

\* an exchange without a minimum notional
EnforceMinNotional_Off(price, qty) == qty

\* ExchangeClient._enforce_min_notional
EnforceMinNotional(price, qty) ==
    IF MinNotional > 0 /\ Proceeds(price, qty) < MinNotional THEN 0 ELSE qty

\* ExchangeClient.create_market_order in dry-run, at the ticker price
CreateMarketOrder(side, quantity, price) ==
    LET qty == EnforceMinNotional(price, RoundQty(quantity))
    IN  IF qty <= 0
        THEN [status |-> "REJECTED", side |-> side, executedQty |-> 0, price |-> price]
        ELSE [status |-> "FILLED", side |-> side, executedQty |-> qty, price |-> price]

\* _execute_or_paper_buy / _execute_or_paper_sell: <<exec_qty, exec_price>>
ExecuteOrPaper(side, qty, price) ==
    LET order == CreateMarketOrder(side, qty, price)
    IN  IF order.status \in {"FILLED", "PARTIALLY_FILLED"}
        THEN <<order.executedQty, order.price>>
        ELSE <<0, 0>>

\* RiskManager.compute_sl_tp_prices
ComputeSlTpPrices(entry_price) ==
    [sl_price |-> MulBps(entry_price, BpsOne - StopLossPct),
     tp_price |-> MulBps(entry_price, BpsOne + TakeProfitPct)]

\* RiskManager._round_qty with the exchange's rounder
RiskRoundQty(qty) == IF qty <= 0 THEN 0 ELSE RoundQty(qty)

\* RiskManager._round_qty called without a symbol (the default of
\* compute_position_size_by_risk): float(f"{qty:.8f}"), 0 below 1e-8.
\* q9 and the result are in units of 1e-9.
RiskRoundQtyNoSymbol(q9) ==
    IF q9 <= 0 THEN 0
    ELSE LET q == q9 \div 10
             rem == q9 % 10
             r == IF rem > 5 \/ (rem = 5 /\ q % 2 = 1) THEN (q + 1) * 10 ELSE q * 10
         IN  IF r < 10 THEN 0 ELSE r

\* sizing by the allocation cap alone
PositionSizeByRisk_NoRiskCap(balance, entry_price, stop_price, risk_pct, alloc_pct) ==
    IF balance <= 0 \/ entry_price <= 0 THEN 0
    ELSE RiskRoundQty((Max(0, MulBps(balance, alloc_pct)) * QtyScale) \div entry_price)

\* RiskManager.compute_position_size_by_risk of a manager configured with
\* per_trade_risk_pct = risk_pct and per_trade_pct = alloc_pct
PositionSizeByRisk(balance, entry_price, stop_price, risk_pct, alloc_pct) ==
    IF balance <= 0 \/ entry_price <= 0 THEN 0
    ELSE LET risk_amount == Max(0, MulBps(balance, risk_pct))
             risk_per_unit == Abs(entry_price - stop_price)
             alloc_usdt == Max(0, MulBps(balance, alloc_pct))
             qty_cap == (alloc_usdt * QtyScale) \div entry_price
             qty == IF risk_per_unit <= 0 THEN qty_cap
                    ELSE Min((risk_amount * QtyScale) \div risk_per_unit, qty_cap)
         IN  RiskRoundQty(Max(0, qty))

\* RiskManager.compute_position_size_by_risk with the configured percentages
ComputePositionSizeByRisk(balance, entry_price, stop_price) ==
    PositionSizeByRisk(balance, entry_price, stop_price, PerTradeRiskPct, PerTradePct)

\* RiskManager.__init__ over a portfolio: max_dd is risk.max_daily_drawdown_pct
\* in bp; has_equity says whether the portfolio offers a get_total_equity that
\* returns (PortfolioManager offers none) and equity is what it returns; day
\* is the UTC day of the clock; anchor_day = 0 is _day_anchor_ts = 0.0; halts
\* is the history of "Daily loss guard" notifications
GuardFresh(max_dd, has_equity, equity) ==
    [max_dd |-> max_dd, has_equity |-> has_equity, equity |-> equity, day |-> 1,
     start_equity |-> Undefined, anchor_day |-> 0, halts |-> <<>>]

\* the guard main.py builds from the default configuration
GuardDefault == GuardFresh(MaxDailyDrawdownPct, PortfolioHasTotalEquity, 0)

\* RiskManager.check_daily_loss_guard(): the answer and the guard after it
CheckDailyLossGuard_AlwaysPass(g, tick) == [ok |-> TRUE, guard |-> g]
CheckDailyLossGuard(g, tick) ==
    IF g.max_dd <= 0 THEN [ok |-> TRUE, guard |-> g]
    ELSE IF ~g.has_equity THEN [ok |-> TRUE, guard |-> g]
    ELSE LET rolled == IF g.anchor_day # 0 /\ g.anchor_day # g.day
                       THEN [g EXCEPT !.start_equity = Undefined, !.anchor_day = 0]
                       ELSE g
         IN  IF rolled.start_equity = Undefined
             THEN [ok |-> TRUE,
                   guard |-> [rolled EXCEPT !.start_equity = g.equity,
                                            !.anchor_day = g.day]]
             ELSE IF g.equity <= MulBps(rolled.start_equity, BpsOne - g.max_dd)
             THEN [ok |-> FALSE,
                   guard |-> [rolled EXCEPT !.halts =
                                Append(@, [tick |-> tick, day |-> g.day,
                                           equity |-> g.equity])]]
             ELSE [ok |-> TRUE, guard |-> rolled]

\* StrategyManager.get_ma / signal_ma_cross with strategy.ma_short = s and
\* strategy.ma_long = l
LiveSigMaCrossWith(win, s, l) ==
    IF Len(win) < s \/ Len(win) < l THEN FALSE
    ELSE LET ms == TailSum(win, s)
             ml == TailSum(win, l)
         IN  ms[1] * ml[2] > ml[1] * ms[2]

LiveSigMaCross(win) == LiveSigMaCrossWith(win, LiveMaShort, LiveMaLong)

\* StrategyManager.signal_momentum with trade.entry_lookback_min and
\* trade.entry_change_pct as given
LiveSigMomentumWith(win, lookback_min, entry_change_pct) ==
    IF Len(win) < lookback_min + 1 THEN FALSE
    ELSE LET start == win[Len(win) - lookback_min].close
             last == win[Len(win)].close
         IN  IF start <= 0 THEN FALSE
             ELSE (last - start) * 100 >= entry_change_pct * start

LiveSigMomentum(win) == LiveSigMomentumWith(win, EntryLookbackMin, EntryChangePct)

\* a value of the external indicator that is not finite
NaN == 0 - 2

\* StrategyManager.get_rsi; raw is what RSIIndicator returns for the window
GetRsi(win, period, raw) ==
    IF Len(win) < period + 1 THEN Undefined
    ELSE IF raw = NaN THEN Undefined ELSE raw

\* StrategyManager.rsi_filter_buy for strategy.use_rsi_filter = use and the
\* value r of get_rsi
RsiFilterBuyWith_FailOpen(use, r, rsi_buy) ==
    IF ~use THEN TRUE ELSE r = Undefined \/ r >= rsi_buy
RsiFilterBuyWith(use, r, rsi_buy) ==
    IF ~use THEN TRUE ELSE r # Undefined /\ r >= rsi_buy

RsiFilterBuy(win, o) ==
    RsiFilterBuyWith(UseRsiFilter, GetRsi(win, RsiPeriod, o.rsi), RsiBuy)

\* StrategyManager.get_macd: <<macd, signal>>, each <<>> for None or <<v>>;
\* raw is what MACD returns for the window, <<>> standing for a non-finite
\* value
GetMacd(win, fast, slow, signal, raw) ==
    IF Len(win) < Max(fast, Max(slow, signal)) + 5 THEN << <<>>, <<>> >>
    ELSE raw

\* StrategyManager.macd_filter_buy for strategy.use_macd_filter = use and the
\* pair ms of get_macd
MacdFilterBuyWith(use, ms) ==
    IF ~use THEN TRUE
    ELSE IF ms[1] = <<>> \/ ms[2] = <<>> THEN FALSE
    ELSE ms[1][1] > ms[2][1]

\* the MACD lines behind o.macd_above (macd > signal)
MacdRaw(o) == IF o.macd_above THEN << <<1>>, <<0>> >> ELSE << <<0>>, <<1>> >>

MacdFilterBuy(win, o) ==
    MacdFilterBuyWith(UseMacdFilter,
                      GetMacd(win, MacdFast, MacdSlow, MacdSignal, MacdRaw(o)))

LiveSignal(strategy, win) ==
    IF strategy = "momentum" THEN LiveSigMomentum(win) ELSE LiveSigMaCross(win)

\* the condition of a strategy block of scan_and_trade
EntryBlockTaken(has, sig, rsi_ok, macd_ok) == ~has /\ sig /\ rsi_ok /\ macd_ok

HasPosition(st, symbol, strategy, open) ==
    \E pid \in open : /\ st.positions[pid].symbol = symbol
                      /\ st.positions[pid].strategy = strategy

\* one strategy block of scan_and_trade: the quantity it sends to buy_market
\* (0: no order), for the snapshot `open` of open positions
LiveOrderQty(strategy, st, open, win, o) ==
    IF ~EntryBlockTaken(HasPosition(st, Symbol, strategy, open),
                        LiveSignal(strategy, win), RsiFilterBuy(win, o),
                        MacdFilterBuy(win, o))
    THEN 0
    ELSE LET price == win[Len(win)].close
             sltp == ComputeSlTpPrices(price)
         IN  ComputePositionSizeByRisk(GetBalance(st, strategy), price, sltp.sl_price)

\* the fill of that block: <<exec_qty, exec_price>>
LiveFill(strategy, st, open, win, o) ==
    LET qty == LiveOrderQty(strategy, st, open, win, o)
    IN  IF qty > 0 THEN ExecuteOrPaper("BUY", qty, TickerPrice(win, o)) ELSE <<0, 0>>

\* a filled buy, with the sl/tp prices scan_and_trade computed for it and
\* passes on to portfolio.open_position
BuyRecord(strategy, fill, sltp, tick) ==
    [side |-> "BUY", symbol |-> Symbol, strategy |-> strategy, pid |-> 0,
     qty |-> fill[1], price |-> fill[2], sl_price |-> sltp.sl_price,
     tp_price |-> sltp.tp_price, tick |-> tick]

\* PortfolioManager.save_position at time now
SavePositionState(st, pos, now) ==
    [st EXCEPT !.positions =
        [p \in DOMAIN st.positions \cup {now} |->
            IF p = now THEN [pos EXCEPT !.status = "open"] ELSE st.positions[p]]]

\* the body of the symbol loop of scan_and_trade: the buys it gets filled and
\* the portfolio afterwards.  A filled buy is followed by
\* portfolio.open_position, which raises, and the except clause ends the
\* symbol's iteration (the ma block is then not reached).
ScanSymbol(st, open, win, o, tick) ==
    LET fm == LiveFill("momentum", st, open, win, o)
        fa == LiveFill("ma", st, open, win, o)
        sltp == ComputeSlTpPrices(win[Len(win)].close)
    IN  IF fm[1] > 0 /\ ~PortfolioHasOpenPosition
        THEN [state |-> st, buys |-> <<BuyRecord("momentum", fm, sltp, tick)>>]
        ELSE IF fa[1] > 0 /\ ~PortfolioHasOpenPosition
        THEN [state |-> st, buys |-> <<BuyRecord("ma", fa, sltp, tick)>>]
        ELSE [state |-> st, buys |-> <<>>]

\* the order of a strategy block that create_market_order rejected, if any
RejectOf(strategy, st, open, win, o, tick) ==
    LET qty == LiveOrderQty(strategy, st, open, win, o)
    IN  IF qty > 0 /\ LiveFill(strategy, st, open, win, o)[1] = 0
        THEN <<[side |-> "BUY", symbol |-> Symbol, strategy |-> strategy,
                origQty |-> qty, tick |-> tick]>>
        ELSE <<>>

\* the rejections of one pass of the symbol loop: the ma block is reached
\* unless the momentum block raised after its fill
ScanRejects(st, open, win, o, tick) ==
    RejectOf("momentum", st, open, win, o, tick)
    \o (IF LiveFill("momentum", st, open, win, o)[1] > 0 /\ ~PortfolioHasOpenPosition
        THEN <<>>
        ELSE RejectOf("ma", st, open, win, o, tick))

\* a configured symbol the exchange has no klines for: get_klines raises
DeadSymbol == "DEADUSDT"
OtherDeadSymbol == "GONEUSDT"

\* the evaluation of sym in the symbol loop raises: its klines cannot be
\* fetched, or a buy of Symbol filled (buys) and portfolio.open_position
\* raised
SymbolRaises(sym, buys) ==
    IF sym = Symbol THEN buys # <<>> /\ ~PortfolioHasOpenPosition ELSE TRUE

\* a symbol loop that the first exception ends
Reached_UntilFirstError(u, buys) ==
    {k \in 1..Len(u) : \A j \in 1..(k - 1) : ~SymbolRaises(u[j], buys)}
\* the indices of universe u whose iteration of the symbol loop is started:
\* the try/except is inside the loop, one per symbol
Reached(u, buys) == 1..Len(u)

\* the symbol loop of scan_and_trade over universe u, r and rejects being
\* what the iteration of Symbol does: the portfolio and the orders the loop
\* leaves, what its except clause logs and the symbols it reaches after an
\* exception
ScanLoop(u, st, r, rejects, tick) ==
    LET reached == Reached(u, r.buys)
        evald == \E k \in reached : u[k] = Symbol
    IN  [state |-> IF evald THEN r.state ELSE st,
         buys |-> IF evald THEN r.buys ELSE <<>>,
         rejects |-> IF evald THEN rejects ELSE <<>>,
         log |-> MapSeq(LAMBDA k : [src |-> "Strategy", symbol |-> u[k], pid |-> 0,
                                    tick |-> tick],
                        SelectSeq([k \in 1..Len(u) |-> k], LAMBDA k :
                                     k \in reached /\ SymbolRaises(u[k], r.buys))),
         resumed |-> MapSeq(LAMBDA k : [symbol |-> u[k], tick |-> tick],
                            SelectSeq([k \in 1..Len(u) |-> k], LAMBDA k :
                                /\ k \in reached
                                /\ \E j \in 1..(k - 1) : SymbolRaises(u[j], r.buys)))]

\* a scan that goes on after the guard said halt
ScanUniverse_GuardIgnored(ok, u, st, r, rejects, tick) ==
    ScanLoop(u, st, r, rejects, tick)
\* scan_and_trade after the guard has answered ok: it returns at once on a
\* halt and runs the symbol loop otherwise
ScanUniverse(ok, u, st, r, rejects, tick) ==
    IF ~ok THEN [state |-> st, buys |-> <<>>, rejects |-> <<>>, log |-> <<>>,
                 resumed |-> <<>>]
    ELSE ScanLoop(u, st, r, rejects, tick)

----------------------------------------------------------------------------
(* ExitManager.manage_positions                                            *)

TrailingGet(tr, symbol, default) == IF symbol \in DOMAIN tr THEN tr[symbol] ELSE default

\* self.trailing after the update made for pos at price
TrailingAfter(tr, pos, price) ==
    IF price > TrailingGet(tr, pos.symbol, pos.entry_price)
    THEN [s \in DOMAIN tr \cup {pos.symbol} |-> IF s = pos.symbol THEN price ELSE tr[s]]
    ELSE tr

\* the highest the trailing stop is computed from: self.trailing.get(symbol, price)
LiveHighestUsed(tr, pos, price) == TrailingGet(TrailingAfter(tr, pos, price), pos.symbol, price)

\* the reason chain of manage_positions
LiveExitReason(tr, pos, price) ==
    LET trail_stop == MulBps(LiveHighestUsed(tr, pos, price), BpsOne - TrailingStopPct)
    IN  IF price >= pos.tp_price THEN "TP hit"
        ELSE IF price <= pos.sl_price \/ price <= trail_stop THEN "SL/Trail hit"
        ELSE None

\* ExitManager._close_position ends with portfolio.close_position(pos["symbol"]):
\* one argument for close_position(pid, pnl), a TypeError that manage_positions
\* catches.  The sell and save_trade before it have happened.
CloseCallRaises == TRUE

RECURSIVE ManageFold(_, _, _)
\* the loop of manage_positions over the pids `todo`, in insertion order;
\* acc = [trailing, orders, trades, seen, log]
ManageFold(todo, price, acc) ==
    IF todo = {} THEN acc
    ELSE LET pid == CHOOSE p \in todo : \A q \in todo : p <= q
             pos == state.positions[pid]
             reason == LiveExitReason(acc.trailing, pos, price)
             fill == ExecuteOrPaper("SELL", pos.qty, price)
             sell == IF fill[1] > 0
                     THEN <<[side |-> "SELL", symbol |-> pos.symbol,
                             strategy |-> pos.strategy, pid |-> pid, qty |-> fill[1],
                             price |-> fill[2], tick |-> ticks]>>
                     ELSE <<>>
             trade == [pid |-> pid, symbol |-> pos.symbol, strategy |-> pos.strategy,
                       exit_price |-> IF fill[2] # 0 THEN fill[2] ELSE price,
                       qty |-> IF fill[1] # 0 THEN fill[1] ELSE pos.qty,
                       pnl |-> Proceeds(price - pos.entry_price, pos.qty),
                       reason |-> reason]
             seen == [p \in DOMAIN acc.seen \cup {pid} |->
                        IF p = pid
                        THEN [reason |-> reason, price |-> price, tick |-> ticks,
                              highest |-> LiveHighestUsed(acc.trailing, pos, price),
                              n |-> IF pid \in DOMAIN acc.seen
                                    THEN acc.seen[pid].n + 1 ELSE 1,
                              fresh |-> pos.symbol \notin DOMAIN acc.trailing]
                        ELSE acc.seen[p]]
         IN  ManageFold(todo \ {pid}, price,
                [trailing |-> TrailingAfter(acc.trailing, pos, price),
                 orders |-> IF reason # None THEN acc.orders \o sell ELSE acc.orders,
                 trades |-> IF reason # None THEN Append(acc.trades, trade)
                            ELSE acc.trades,
                 seen |-> seen,
                 log |-> IF reason # None /\ CloseCallRaises
                         THEN Append(acc.log, [src |-> "Exit", symbol |-> pos.symbol,
                                               pid |-> pid, tick |-> ticks])
                         ELSE acc.log])

----------------------------------------------------------------------------
(* run_live_or_paper as a state machine.  pc: "loop" (top of the while     *)
(* loop), "scan", "manage".                                                *)

LvIdle ==
    /\ state = EmptyState /\ trailing = EmptyMap /\ clock = 0 /\ ticks = 0
    /\ orders = <<>> /\ trades_saved = <<>> /\ lv_seen = EmptyMap /\ api_calls = 0
    /\ guard = GuardDefault
    /\ universe = Universe /\ log = <<>> /\ resumed = <<>>
    /\ disk = NoFile

\* portfolio.json as a run finds it: absent, or holding the balances that
\* update_balance(0, strategy) leaves for both strategies
SeededBalances == [s \in Strategies |-> InitialBalance \div 2]
\* or balances too small for an order of the minimum notional (50.00 each)
LowBalances == [s \in Strategies |-> InitialBalance \div 20]

LvInit ==
    /\ pc = "loop"
    /\ bars = [k \in 1..WarmupBars |-> Bar(WarmupClose)]
    /\ state \in {EmptyState, [EmptyState EXCEPT !.balances = SeededBalances],
                  [EmptyState EXCEPT !.balances = LowBalances]}
    /\ trailing = EmptyMap /\ clock = 0 /\ ticks = 0
    /\ orders = <<>> /\ trades_saved = <<>> /\ lv_seen = EmptyMap /\ api_calls = 0
    /\ guard = GuardDefault
    /\ universe = Universe /\ log = <<>> /\ resumed = <<>>
    /\ disk = IF state = EmptyState THEN NoFile ELSE JsonDump(state)

\* the position dicts register_trade / save_position are called with
EntryChoices == {102 * Cents}
NewPositions ==
    {[symbol |-> Symbol, strategy |-> s, entry_price |-> e, qty |-> QtyScale \div 2,
      sl_price |-> ComputeSlTpPrices(e).sl_price,
      tp_price |-> ComputeSlTpPrices(e).tp_price,
      entry_ts |-> 0, status |-> "open"] : s \in Strategies, e \in EntryChoices}

\* PortfolioManager.register_trade(trade) between two loop iterations, at
\* least a millisecond after the previous one
LvRegisterTrade ==
    /\ mode = "live" /\ pc = "loop"
    /\ Cardinality(DOMAIN state.positions) < MaxSaves
    /\ \E pos \in NewPositions :
          /\ clock' = clock + 1
          /\ state' = SavePositionState(state, pos, clock + 1)
    /\ disk' = JsonDump(state')
    /\ UNCHANGED <<mode, calc, rejected, guard, universe, log, resumed, pc, bars, btvars, trailing, ticks, orders, trades_saved,
                   lv_seen, api_calls>>

\* what get_total_equity of an equity-reporting portfolio returns from the
\* second iteration of a live run on: 1000.00 or 900.00 (the first iteration
\* still sees the equity the run started with)
LiveEquities == {InitialBalance, InitialBalance - InitialBalance \div 10}

\* top of `while running`: the market has moved since the last iteration
LvLoop ==
    /\ mode = "live" /\ pc = "loop" /\ ticks < MaxLiveTicks
    /\ \E c \in Closes : bars' = Append(bars, Bar(c))
    /\ \E e \in (IF guard.has_equity /\ ticks > 0 THEN LiveEquities
                 ELSE {guard.equity}) :
          guard' = [guard EXCEPT !.equity = e]
    /\ ticks' = ticks + 1
    /\ pc' = "scan"
    /\ UNCHANGED <<mode, calc, rejected, btvars, state, trailing, clock, orders, trades_saved, lv_seen,
                   api_calls, universe, log, resumed, disk>>

\* now - last_scan < poll_sec: no scan in this iteration
LvScanNotDue ==
    /\ mode = "live" /\ pc = "scan"
    /\ pc' = "manage"
    /\ UNCHANGED <<mode, calc, rejected, bars, btvars, lvvars>>

\* StrategyManager.scan_and_trade(universe)
ScanAndTrade ==
    /\ mode = "live" /\ pc = "scan"
    /\ \E o \in Oracles :
       \E g \in {CheckDailyLossGuard(guard, ticks)} :
       \E sym \in {ScanSymbol(state, GetOpenPositions(state), bars, o, ticks)} :
       \E rej \in {ScanRejects(state, GetOpenPositions(state), bars, o, ticks)} :
       \E r \in {IF universe = <<>>
                 THEN [state |-> state, buys |-> <<>>, rejects |-> <<>>,
                       log |-> <<>>, resumed |-> <<>>]
                 ELSE ScanUniverse(g.ok, universe, state, sym, rej, ticks)} :
          /\ guard' = IF universe = <<>> THEN guard ELSE g.guard
          /\ state' = r.state
          /\ orders' = orders \o r.buys
          /\ rejected' = rejected \o r.rejects
          /\ log' = log \o r.log
          /\ resumed' = resumed \o r.resumed
    /\ pc' = "manage"
    /\ UNCHANGED <<mode, calc, bars, btvars, trailing, clock, ticks, trades_saved, lv_seen,
                   api_calls, universe, disk>>

\* ExitManager.manage_positions()
ManagePositions ==
    /\ mode = "live" /\ pc = "manage"
    /\ \E r \in {ManageFold(GetOpenPositions(state), CurPx,
                  [trailing |-> trailing, orders |-> orders, trades |-> trades_saved,
                   seen |-> lv_seen, log |-> log])} :
           /\ trailing' = r.trailing
           /\ orders' = r.orders
           /\ trades_saved' = r.trades
           /\ lv_seen' = r.seen
           /\ log' = r.log
           /\ state' = IF CloseCallRaises THEN state ELSE state
    /\ pc' = "loop"
    /\ UNCHANGED <<mode, calc, rejected, guard, universe, resumed, disk, bars, btvars, clock,
                   ticks, api_calls>>

LvNext == LvRegisterTrade \/ LvLoop \/ LvScanNotDue \/ ScanAndTrade \/ ManagePositions

\* the live loop over a universe in which a symbol without klines comes
\* before and after the traded one
LvUniverseInit ==
    /\ mode = "live" /\ pc = "loop"
    /\ bars = [k \in 1..WarmupBars |-> Bar(WarmupClose)]
    /\ BtIdle /\ calc = NoCalc /\ rejected = <<>>
    /\ state = [EmptyState EXCEPT !.balances = SeededBalances]
    /\ trailing = EmptyMap /\ clock = 0 /\ ticks = 0
    /\ orders = <<>> /\ trades_saved = <<>> /\ lv_seen = EmptyMap /\ api_calls = 0
    /\ guard = GuardDefault
    /\ universe = <<DeadSymbol, Symbol, OtherDeadSymbol>>
    /\ log = <<>> /\ resumed = <<>>
    /\ disk = JsonDump(state)

SpecUniverse == LvUniverseInit /\ [][LvNext]_vars

\* the live loop with risk.max_daily_drawdown_pct = 5 over a portfolio that
\* reports its equity, the one arrangement in which the guard can say halt
LvGuardedInit ==
    /\ mode = "live" /\ pc = "loop"
    /\ bars = [k \in 1..WarmupBars |-> Bar(WarmupClose)]
    /\ BtIdle /\ calc = NoCalc /\ rejected = <<>>
    /\ state = [EmptyState EXCEPT !.balances = SeededBalances]
    /\ trailing = EmptyMap /\ clock = 0 /\ ticks = 0
    /\ orders = <<>> /\ trades_saved = <<>> /\ lv_seen = EmptyMap /\ api_calls = 0
    /\ guard = GuardFresh(5 * 100, TRUE, InitialBalance)
    /\ universe = Universe /\ log = <<>> /\ resumed = <<>>
    /\ disk = JsonDump(state)

SpecLiveGuarded == LvGuardedInit /\ [][LvNext]_vars

\* Ctrl-C while the try block of the loop runs.  scan_and_trade and
\* manage_positions catch Exception only, so a KeyboardInterrupt raised at
\* any of their statements reaches `except KeyboardInterrupt`, which sets
\* running = False: the loop ends where the iteration was.
LvInterrupt ==
    /\ mode = "live" /\ pc \in {"loop", "scan", "manage"}
    /\ pc' = "stopped"
    /\ UNCHANGED <<mode, calc, rejected, bars, btvars, lvvars>>

\* a live run that the user may interrupt
LvCancelInit ==
    /\ mode = "live" /\ LvInit /\ BtIdle
    /\ calc = NoCalc /\ rejected = <<>>

LvCancelNext == LvNext \/ LvInterrupt
SpecCancel == LvCancelInit /\ [][LvCancelNext]_vars

----------------------------------------------------------------------------
Init ==
    /\ calc = NoCalc /\ rejected = <<>>
    /\ \/ mode = "backtest" /\ BtInit /\ LvIdle
       \/ mode = "live" /\ LvInit /\ BtIdle

Next == BtNext \/ LvNext
Spec == Init /\ [][Next]_vars

----------------------------------------------------------------------------
(* PortfolioManager under direct calls: save_position, close_position and  *)
(* update_balance in any order, on a portfolio that starts without a state *)
(* file.  pc stays "api".                                                  *)

\* PortfolioManager.update_balance(pnl, strategy)
UpdateBalanceState(st, pnl, strategy) ==
    LET bal == IF strategy \in DOMAIN st.balances THEN st.balances[strategy]
               ELSE InitialBalance \div 2
    IN  [st EXCEPT !.balances =
            [s \in DOMAIN st.balances \cup {strategy} |->
                IF s = strategy THEN bal + pnl ELSE st.balances[s]]]

\* PortfolioManager.ledger(event, details)
LedgerState(st, event, pid, pnl) ==
    [st EXCEPT !.ledger = Append(@, [event |-> event, pid |-> pid, pnl |-> pnl])]

\* PortfolioManager.close_position(pid, pnl)
ClosePositionState(st, pid, pnl) ==
    IF pid \in DOMAIN st.positions
    THEN LET marked == [st EXCEPT !.positions[pid].status = "closed"]
         IN  LedgerState(UpdateBalanceState(marked, pnl, st.positions[pid].strategy),
                         "exit", pid, pnl)
    ELSE st

PnlChoices == {0 - 600 * Cents, 10 * Cents}

PfInit ==
    /\ mode = "live" /\ pc = "api" /\ bars = <<>>
    /\ LvIdle /\ BtIdle /\ calc = NoCalc /\ rejected = <<>>

SavePosition ==
    /\ pc = "api" /\ api_calls < MaxApiCalls
    /\ Cardinality(DOMAIN state.positions) < MaxSaves
    /\ \E pos \in NewPositions, dt \in {0, 1} :
          /\ clock' = clock + dt
          /\ state' = SavePositionState(state, pos, clock + dt)
    /\ disk' = JsonDump(state')
    /\ api_calls' = api_calls + 1
    /\ UNCHANGED <<mode, calc, rejected, guard, universe, log, resumed, pc, bars, btvars, trailing, ticks, orders, trades_saved,
                   lv_seen>>

ClosePosition ==
    /\ pc = "api" /\ api_calls < MaxApiCalls
    /\ \E pid \in DOMAIN state.positions \cup {clock + 1}, pnl \in PnlChoices :
          /\ state' = ClosePositionState(state, pid, pnl)
          /\ disk' = IF pid \in DOMAIN state.positions THEN JsonDump(state') ELSE disk
    /\ api_calls' = api_calls + 1
    /\ UNCHANGED <<mode, calc, rejected, guard, universe, log, resumed, pc, bars, btvars, trailing, clock, ticks, orders,
                   trades_saved, lv_seen>>

UpdateBalance ==
    /\ pc = "api" /\ api_calls < MaxApiCalls
    /\ \E pnl \in PnlChoices, s \in Strategies :
          state' = UpdateBalanceState(state, pnl, s)
    /\ disk' = JsonDump(state')
    /\ api_calls' = api_calls + 1
    /\ UNCHANGED <<mode, calc, rejected, guard, universe, log, resumed, pc, bars, btvars, trailing, clock, ticks, orders,
                   trades_saved, lv_seen>>

\* the process ends.  The loop just stops (main.py:60-62): nothing is sold,
\* nothing is written, and the PortfolioManager object is gone.
PfShutdown ==
    /\ pc = "api"
    /\ pc' = "down"
    /\ state' = EmptyState
    /\ UNCHANGED <<mode, calc, rejected, guard, universe, log, resumed, disk, bars, btvars,
                   trailing, clock, ticks, orders, trades_saved, lv_seen, api_calls>>

\* the next process constructs PortfolioManager on the same state file
PfStartup ==
    /\ pc = "down"
    /\ pc' = "api"
    /\ \E st \in {LoadState(disk)} :
          /\ state' = st
          /\ calc' = [fn |-> "load_state", loaded |-> st]
    /\ UNCHANGED <<mode, rejected, guard, universe, log, resumed, disk, bars, btvars,
                   trailing, clock, ticks, orders, trades_saved, lv_seen, api_calls>>

PfNext == SavePosition \/ ClosePosition \/ UpdateBalance \/ PfShutdown \/ PfStartup
SpecPortfolio == PfInit /\ [][PfNext]_vars

----------------------------------------------------------------------------
(* RiskManager.check_daily_loss_guard called directly, over a portfolio    *)
(* that reports its equity or, like PortfolioManager, does not; between    *)
(* two calls the equity moves and the UTC day changes.                     *)

\* risk.max_daily_drawdown_pct: the default, or 5 %
GuardLimits == {MaxDailyDrawdownPct, 5 * 100}
\* total equity of the portfolio: 1000.00, 950.00 or 900.00
GuardEquities ==
    {InitialBalance, InitialBalance - InitialBalance \div 20,
     InitialBalance - InitialBalance \div 10}

GdInit ==
    /\ mode = "live" /\ pc = "api" /\ bars = <<>>
    /\ BtIdle /\ calc = NoCalc /\ rejected = <<>>
    /\ state = EmptyState /\ trailing = EmptyMap /\ clock = 0 /\ ticks = 0
    /\ orders = <<>> /\ trades_saved = <<>> /\ lv_seen = EmptyMap /\ api_calls = 0
    /\ guard \in {GuardFresh(m, h, e) :
                    m \in GuardLimits, h \in BOOLEAN, e \in GuardEquities}
    /\ universe = Universe /\ log = <<>> /\ resumed = <<>>
    /\ disk = NoFile

\* risk.check_daily_loss_guard()
GuardCheck ==
    /\ pc = "api" /\ api_calls < MaxApiCalls
    /\ LET r == CheckDailyLossGuard(guard, api_calls + 1)
       IN  /\ guard' = r.guard
           /\ calc' = [fn |-> "guard", ok |-> r.ok, day |-> guard.day,
                       equity |-> guard.equity]
    /\ api_calls' = api_calls + 1
    /\ UNCHANGED <<mode, rejected, pc, bars, btvars, state, trailing, clock, ticks,
                   orders, trades_saved, lv_seen, universe, log, resumed, disk>>

\* the portfolio's equity moves between two calls
EquityMove ==
    /\ pc = "api"
    /\ \E e \in GuardEquities \ {guard.equity} :
          guard' = [guard EXCEPT !.equity = e]
    /\ UNCHANGED <<mode, calc, rejected, pc, bars, btvars, state, trailing, clock,
                   ticks, orders, trades_saved, lv_seen, api_calls,
                   universe, log, resumed, disk>>

\* midnight UTC passes between two calls
DayRollover ==
    /\ pc = "api" /\ guard.day < MaxDays
    /\ guard' = [guard EXCEPT !.day = @ + 1]
    /\ UNCHANGED <<mode, calc, rejected, pc, bars, btvars, state, trailing, clock,
                   ticks, orders, trades_saved, lv_seen, api_calls,
                   universe, log, resumed, disk>>

GdNext == GuardCheck \/ EquityMove \/ DayRollover
SpecGuard == GdInit /\ [][GdNext]_vars

----------------------------------------------------------------------------
(* RiskManager and ExchangeClient called directly: the sizing and rounding *)
(* functions over a range of arguments and configurations.                 *)

SizeBalances == {0 - 100 * Cents, 0, 500 * Cents, 1000 * Cents}
SizeEntries == {0, 100 * Cents, 103 * Cents}
SizeStops == {98 * Cents, 100 * Cents, MulBps(103 * Cents, BpsOne - StopLossPct)}
RiskPcts == {PerTradeRiskPct, 2 * PerTradeRiskPct}     \* 1 %, 2 %
AllocPcts == {PerTradePct, BpsOne}                     \* 10 %, 100 %
\* quantities 0.0003, 0.0025, 0.485, 0.9, 1.7
RoundInputs == {3, 25, 4850, 9 * 1000, 17 * 1000}
\* step sizes: none, 0.0001, 0.001, 0.4, 1
StepChoices == {0, 1, StepSize, 4 * 1000, QtyScale}
MinQtyChoices == {0, MinQty, QtyScale}
\* quantities 0.000000004, 0.123456781, 0.123456789, in units of 1e-9
NanoInputs == {4, 123456781, 123456789}

\* Backtester.__init__: the configured weights divided by their sum, or by
\* 1.0 when the sum is zero; each weight as <<numerator, denominator>>
StrategyWeights(wm, wma) ==
    LET sw_sum == IF wm + wma = 0 THEN BpsOne ELSE wm + wma
    IN  [momentum |-> <<wm, sw_sum>>, ma |-> <<wma, sw_sum>>]

\* run_backtest: balances = initial_balance * strategy_weights[s]
InitialBalances(wm, wma) ==
    LET w == StrategyWeights(wm, wma)
    IN  [s \in Strategies |-> (InitialBalance * w[s][1]) \div w[s][2]]

\* the summary of a run that made no trade: final_total = sum(balances)
NoTradeSummary(bal) ==
    [initial_balance |-> InitialBalance,
     final_balance |-> bal["momentum"] + bal["ma"],
     total_pnl |-> (bal["momentum"] + bal["ma"]) - InitialBalance,
     trades |-> 0]

\* backtest.weight_momentum / backtest.weight_ma of a configuration, in bp
WeightPairs ==
    {<<BpsOne \div 2, BpsOne \div 2>>, <<BpsOne \div 4, 3 * (BpsOne \div 4)>>,
     <<BpsOne, 0>>, <<BpsOne \div 5, BpsOne \div 5>>, <<0, 0>>}

SzInit ==
    /\ mode = "calc" /\ pc = "api" /\ bars = <<>>
    /\ LvIdle /\ BtIdle /\ calc = NoCalc /\ rejected = <<>>

\* risk.compute_position_size_by_risk(strategy, entry_price, stop_price, symbol)
SizeCall ==
    /\ mode = "calc"
    /\ \E balance \in SizeBalances, entry_price \in SizeEntries,
          stop_price \in SizeStops, risk_pct \in RiskPcts, alloc_pct \in AllocPcts :
          calc' = [fn |-> "size", balance |-> balance, entry_price |-> entry_price,
                   stop_price |-> stop_price, risk_pct |-> risk_pct,
                   alloc_pct |-> alloc_pct,
                   qty |-> PositionSizeByRisk(balance, entry_price, stop_price,
                                              risk_pct, alloc_pct)]
    /\ UNCHANGED <<mode, pc, bars, btvars, lvvars, rejected>>

\* exchange.round_qty(symbol, qty)
RoundCall ==
    /\ mode = "calc"
    /\ \E qty \in RoundInputs, step \in StepChoices, min_qty \in MinQtyChoices :
          calc' = [fn |-> "round", qty |-> qty, step |-> step, min_qty |-> min_qty,
                   r |-> RoundQtyWith(qty, step, min_qty)]
    /\ UNCHANGED <<mode, pc, bars, btvars, lvvars, rejected>>

\* risk._round_qty(None, qty)
RiskRoundCall ==
    /\ mode = "calc"
    /\ \E q9 \in NanoInputs :
          calc' = [fn |-> "risk_round", qty |-> q9, r |-> RiskRoundQtyNoSymbol(q9)]
    /\ UNCHANGED <<mode, pc, bars, btvars, lvvars, rejected>>

\* Backtester(cfg) followed by a run_backtest that makes no trade
SplitCall ==
    /\ mode = "calc"
    /\ \E w \in WeightPairs :
          calc' = [fn |-> "split", weight_momentum |-> w[1], weight_ma |-> w[2],
                   balances |-> InitialBalances(w[1], w[2]),
                   summary |-> NoTradeSummary(InitialBalances(w[1], w[2]))]
    /\ UNCHANGED <<mode, pc, bars, btvars, lvvars, rejected>>

\* the klines of a direct run: the flat warm-up, then three bars
BacktestFeeds ==
    {[k \in 1..WarmupBars |-> Bar(WarmupClose)] \o <<Bar(a), Bar(b), Bar(c)>> :
        a \in Closes, b \in Closes, c \in Closes}

\* Backtester(cfg).run_backtest(symbol) for a configured pair of weights
BacktestCall ==
    /\ mode = "calc" /\ calc = NoCalc
    /\ \E w \in WeightPairs, df \in BacktestFeeds, now \in WallClocks :
       \E loc \in {RunLocals(InitialBalances(w[1], w[2]), df)} :
          calc' = [fn |-> "run_backtest", weight_momentum |-> w[1], weight_ma |-> w[2],
                   locals |-> loc, result |-> RunReturn(loc, df, now)]
    /\ UNCHANGED <<mode, pc, bars, btvars, lvvars, rejected>>

SzNext == SizeCall \/ RoundCall \/ RiskRoundCall \/ SplitCall \/ BacktestCall
SpecSizing == SzInit /\ [][SzNext]_vars

----------------------------------------------------------------------------
(* The signal and filter functions called directly, once, on every window  *)
(* of a bounded set and for several configurations.                        *)

\* closes of the windows: 0.00, 100.00, 102.00, 103.00
SignalCloses == {0, 100 * Cents, 102 * Cents, 103 * Cents}
\* the windows of at most MaxWindow bars
ShortWindows ==
    UNION {[1..k -> {Bar(c) : c \in SignalCloses}] : k \in 0..MaxWindow}
\* the flat warm-up followed by at most MaxWindow - 1 bars
LongWindows ==
    {[k \in 1..WarmupBars |-> Bar(WarmupClose)] \o t :
        t \in {w \in ShortWindows : Len(w) < MaxWindow}}
SignalWindows == ShortWindows \cup LongWindows

\* trade.entry_lookback_min and trade.entry_change_pct of a configuration
Lookbacks == {1, EntryLookbackMin}
Thresholds == {EntryChangePct}
\* strategy.ma_short / strategy.ma_long of a configuration: the defaults, a
\* faster pair and a pair whose short window is the longer one
MaConfigs == {<<LiveMaShort, LiveMaLong>>, <<2, 3>>, <<LiveMaLong + 1, 2>>}
\* what the external RSI and MACD return
RsiRaws == RsiValues \cup {NaN}
MacdRaws == {<< <<1>>, <<0>> >>, << <<0>>, <<1>> >>, << <<>>, <<0>> >>,
             << <<1>>, <<>> >>}

SgInit ==
    /\ mode = "calc" /\ pc = "api" /\ bars = <<>>
    /\ LvIdle /\ BtIdle /\ calc = NoCalc /\ rejected = <<>>

\* Backtester._sig_momentum(win, lookback, threshold) and
\* StrategyManager.signal_momentum(win) under the same configuration
MomentumCall ==
    /\ mode = "calc" /\ calc = NoCalc
    /\ \E win \in SignalWindows, lookback \in Lookbacks, threshold \in Thresholds :
          calc' = [fn |-> "momentum", win |-> win, lookback |-> lookback,
                   threshold |-> threshold,
                   bt |-> SigMomentum(win, lookback, threshold),
                   live |-> LiveSigMomentumWith(win, lookback, threshold)]
    /\ UNCHANGED <<mode, pc, bars, btvars, lvvars, rejected>>

\* the ma block of run_backtest, _sig_ma(win, 9, 21), and
\* StrategyManager.signal_ma_cross(win) under one configuration
MaCall ==
    /\ mode = "calc" /\ calc = NoCalc
    /\ \E win \in SignalWindows, c \in MaConfigs :
          calc' = [fn |-> "ma", win |-> win, ma_short |-> c[1], ma_long |-> c[2],
                   bt |-> SigMa(win, BtMaShort, BtMaLong),
                   live |-> LiveSigMaCrossWith(win, c[1], c[2])]
    /\ UNCHANGED <<mode, pc, bars, btvars, lvvars, rejected>>

\* the two strategy blocks of scan_and_trade on one window, for a
\* configuration of the filters and no open position
FilterCall ==
    /\ mode = "calc" /\ calc = NoCalc
    /\ \E win \in SignalWindows, use_rsi \in BOOLEAN, use_macd \in BOOLEAN,
          rsi_raw \in RsiRaws, macd_raw \in MacdRaws :
          LET r == GetRsi(win, RsiPeriod, rsi_raw)
              ms == GetMacd(win, MacdFast, MacdSlow, MacdSignal, macd_raw)
              rsi_ok == RsiFilterBuyWith(use_rsi, r, RsiBuy)
              macd_ok == MacdFilterBuyWith(use_macd, ms)
          IN  calc' = [fn |-> "filters", win |-> win, use_rsi |-> use_rsi,
                       use_macd |-> use_macd, rsi_raw |-> rsi_raw,
                       macd_raw |-> macd_raw, rsi_ok |-> rsi_ok, macd_ok |-> macd_ok,
                       signal |-> [s \in Strategies |-> LiveSignal(s, win)],
                       enters |-> [s \in Strategies |->
                                     EntryBlockTaken(FALSE, LiveSignal(s, win),
                                                     rsi_ok, macd_ok)]]
    /\ UNCHANGED <<mode, pc, bars, btvars, lvvars, rejected>>

SgNext == MomentumCall \/ MaCall \/ FilterCall
SpecSignals == SgInit /\ [][SgNext]_vars

----------------------------------------------------------------------------
(* Claims.                                                                 *)

\* number of open positions the backtest holds for a strategy
BtCount(s) == Cardinality({k \in 1..Len(open_positions) : open_positions[k].strategy = s})

\* number of open positions the live portfolio holds for (Symbol, strategy)
LvCount(st, s) ==
    Cardinality({pid \in GetOpenPositions(st) :
                    /\ st.positions[pid].symbol = Symbol
                    /\ st.positions[pid].strategy = s})

\* the buys scan_and_trade got filled for (Symbol, strategy) and that no later
\* sell has closed: the lots of the pair the live run is holding
LvUnsoldBuys(s) ==
    {j \in 1..Len(orders) :
        /\ orders[j].side = "BUY" /\ orders[j].strategy = s
        /\ ~\E k \in (j + 1)..Len(orders) :
               orders[k].side = "SELL" /\ orders[k].pid = orders[j].pid}

\* C1: at most one open position per (symbol, strategy) after any sequence of
\* ticks: the backtest never holds two open positions of one strategy, and the
\* live scan/exit cycle never holds two bought, unsold lots of one pair.
C1_OnePositionPerPair ==
    /\ \A s \in Strategies : BtCount(s) <= 1
    /\ \A s \in Strategies : Cardinality(LvUnsoldBuys(s)) <= 1

ExitsOf(id) == {j \in 1..Len(bt_exits) : bt_exits[j].id = id}

\* C2: when run_backtest returns a summary, every position opened during the
\* run has been credited exactly once, by a TP/SL/TRAIL exit or by the forced
\* exit at the final close less slippage; no position is credited twice at
\* any time.
C2_AllClosedAtEnd ==
    /\ \A k \in 1..Len(bt_entries) : Cardinality(ExitsOf(bt_entries[k].id)) <= 1
    /\ (pc = "done" /\ summary.returned) =>
          /\ \A k \in 1..Len(bt_entries) : Cardinality(ExitsOf(bt_entries[k].id)) = 1
          /\ \A j \in 1..Len(bt_exits) :
                bt_exits[j].reason = "FORCE" =>
                    /\ bt_exits[j].ex_px = MulBps(CurPx, BpsOne - SlippagePct)
                    /\ bt_exits[j].index = CurIndex

\* a finished run that closed one position by an exit rule and one by force
C2_Witness ==
    /\ pc = "done" /\ summary.returned
    /\ \E j \in 1..Len(bt_exits) : bt_exits[j].reason = "FORCE"
    /\ \E j \in 1..Len(bt_exits) : bt_exits[j].reason \in {"TP", "SL", "TRAIL"}

\* C6: in the backtest two entries of one strategy are at least
\* entry_cooldown_bars bars apart, whether or not the first position is still
\* open; and an entry exactly entry_cooldown_bars after the previous one is
\* made when nothing else stands in its way (no open position, gate passes,
\* signal true, sizing succeeds).
C6_Cooldown ==
    /\ [](\A a, b \in 1..Len(bt_entries) :
            (a < b /\ bt_entries[a].strategy = bt_entries[b].strategy) =>
                bt_entries[b].index - bt_entries[a].index >= EntryCooldownBars)
    /\ [][\A s \in Strategies :
            (/\ mode = "backtest" /\ pc = "entries"
             /\ CurIndex - last_entry_bar[s] = EntryCooldownBars
             /\ BtCount(s) = 0
             /\ ~AtrGateBlocks(bars)
             /\ BtSignal(s, bars)
             /\ BtSizing(balances[s], CurPx).ok)
            => last_entry_bar'[s] = CurIndex]_vars

\* a strategy entered again exactly entry_cooldown_bars after its last entry
C6_Witness ==
    \E a, b \in 1..Len(bt_entries) :
        /\ bt_entries[a].strategy = bt_entries[b].strategy
        /\ bt_entries[b].index = bt_entries[a].index + EntryCooldownBars

\* C8: every TP/SL/TRAIL exit of the backtest is filled at
\* price*(1 - slippage_pct) and credits exit_price*qty less the taker fee on
\* those proceeds.
C8_ExitSlippage ==
    \A j \in 1..Len(bt_exits) :
        bt_exits[j].reason \in {"TP", "SL", "TRAIL"} =>
            LET ex_px == MulBps(bt_exits[j].px, BpsOne - SlippagePct)
                proceeds == Proceeds(ex_px, bt_exits[j].qty)
            IN  /\ bt_exits[j].ex_px = ex_px
                /\ bt_exits[j].credit = proceeds - MulBps(proceeds, TakerFeePct)

\* C3: every strategy's cash balance is >= 0: the backtest's balances, and
\* the live portfolio's balances after any close_position / update_balance
\* calls.
C3_BalancesNonNegative ==
    /\ \A s \in Strategies : balances[s] >= 0
    /\ \A s \in DOMAIN state.balances : state.balances[s] >= 0

\* C4: close_position on an id that is already closed changes nothing: a
\* closed position gets no further exit event (and so no further credit).
C4_CloseIsIdempotent ==
    [][\A pid \in DOMAIN state.positions :
          (/\ state.positions[pid].status = "closed"
           /\ Len(state'.ledger) > Len(state.ledger))
          => state'.ledger[Len(state'.ledger)].pid # pid]_vars

\* C5: the highest price the trailing stop of a position is computed from
\* never decreases from one tick to the next while the position stays open
\* (no exit reason in either tick), in the backtest and in the live
\* ExitManager.
C5_HighestMonotone ==
    [][/\ \A j \in 1..Len(open_positions), k \in 1..Len(open_positions') :
            open_positions'[k].id = open_positions[j].id =>
                open_positions'[k].highest >= open_positions[j].highest
       /\ \A pid \in DOMAIN lv_seen :
            (/\ pid \in GetOpenPositions(state')
             /\ lv_seen[pid].reason = None
             /\ lv_seen'[pid].reason = None)
            => lv_seen'[pid].highest >= lv_seen[pid].highest]_vars

\* the reason the exit phase must give at price p for a position with these
\* thresholds, highest already updated
ExpectedReason(tp_price, sl_price, highest, p) ==
    IF p >= tp_price THEN "TP"
    ELSE IF p <= sl_price THEN "SL"
    ELSE IF p <= MulBps(highest, BpsOne - TrailingStopPct) THEN "TRAIL"
    ELSE None

\* C7: in the exit phase a position closes with reason TP if p >= tp_price,
\* else SL if p <= sl_price, else TRAIL if p <= highest*(1 - trailing_pct),
\* and stays open iff none holds; in the backtest and in the live
\* ExitManager (whose one label "SL/Trail hit" is accepted for SL and TRAIL).
C7_ExitPrecedence ==
    /\ \A j \in 1..Len(bt_exits) :
          bt_exits[j].reason # "FORCE" =>
              bt_exits[j].reason = ExpectedReason(bt_exits[j].tp_price,
                  bt_exits[j].sl_price, bt_exits[j].highest, bt_exits[j].px)
    /\ (mode = "backtest" /\ pc = "snapshot") =>
          \A k \in 1..Len(open_positions) :
              ExpectedReason(open_positions[k].tp_price, open_positions[k].sl_price,
                             open_positions[k].highest, CurPx) = None
    /\ (mode = "live" /\ pc = "loop") =>
          \A pid \in DOMAIN lv_seen :
              lv_seen[pid].tick = ticks =>
                  LET pos == state.positions[pid]
                      e == ExpectedReason(pos.tp_price, pos.sl_price,
                                          lv_seen[pid].highest, lv_seen[pid].price)
                  IN  /\ (e = None) <=> (pos.status # "closed")
                      /\ e = None => lv_seen[pid].reason = None
                      /\ e = "TP" => lv_seen[pid].reason = "TP hit"
                      /\ e \in {"SL", "TRAIL"} => lv_seen[pid].reason = "SL/Trail hit"

\* the backtest's balances and open positions as a live portfolio
AsPortfolio(bal, positions) ==
    [positions |-> [id \in {positions[k].id : k \in 1..Len(positions)} |->
                      LET p == positions[CHOOSE k \in 1..Len(positions) :
                                            positions[k].id = id]
                      IN  [symbol |-> Symbol, strategy |-> p.strategy,
                           entry_price |-> p.entry_price, qty |-> p.qty,
                           sl_price |-> p.sl_price, tp_price |-> p.tp_price,
                           entry_ts |-> 0, status |-> "open"]],
     balances |-> bal,
     ledger |-> <<>>]

\* the quantity the backtest enters strategy s with on the current bar (0: none)
BtEntryQty(s) ==
    LET e == BtEntry(s, bars, CurIndex, balances[s], last_entry_bar, open_positions)
    IN  IF e.ok THEN e.qty ELSE 0

\* C9: on the same bar window, strategy balance and open positions, the live
\* scan buys a strategy iff the backtest entry phase enters it, with the same
\* quantity (for some value of the external RSI/MACD indicators).
C9_EntryParity ==
    (mode = "backtest" /\ pc = "entries") =>
        \A s \in Strategies : \E o \in Oracles :
            LET st == AsPortfolio(balances, open_positions)
            IN  LiveFill(s, st, GetOpenPositions(st), bars, o)[1] = BtEntryQty(s)

\* C10: for a position with the same entry, tp and sl prices and the same
\* prices observed since entry, manage_positions decides to close at the same
\* tick as the backtest exit phase.  Stated for the first price observed after
\* entry, by an ExitManager that has seen no earlier price of the symbol.
C10_ExitParity ==
    \A pid \in DOMAIN lv_seen :
        (lv_seen[pid].n = 1 /\ lv_seen[pid].fresh) =>
            LET pos == state.positions[pid]
                bt == WithHighest([highest |-> pos.entry_price,
                                   tp_price |-> pos.tp_price,
                                   sl_price |-> pos.sl_price], lv_seen[pid].price)
            IN  (lv_seen[pid].reason # None)
                    <=> (BtExitReason(bt, lv_seen[pid].price) # None)

----------------------------------------------------------------------------
\* C11: in the live scan_and_trade no buy is filled for a (symbol, strategy)
\* within entry_cooldown_bars ticks of that pair's previous buy.
C11_LiveCooldown ==
    \A a, b \in 1..Len(orders) :
        (/\ a < b
         /\ orders[a].side = "BUY" /\ orders[b].side = "BUY"
         /\ orders[a].strategy = orders[b].strategy)
        => orders[b].tick - orders[a].tick >= EntryCooldownBars

\* C12: within a tick the exits are evaluated before the entries.  When the
\* backtest enters, this bar's exit phase has run (no open position meets an
\* exit condition at the bar's price), its snapshot is recorded and the gate
\* has passed; when the live loop fills a buy, manage_positions has already
\* evaluated every open position in this iteration.
C12_PhaseOrder ==
    [][/\ (bt_entries' # bt_entries) =>
            /\ Len(equity_curve) = Len(bars)
            /\ ~AtrGateBlocks(bars)
            /\ \A k \in 1..Len(open_positions) :
                  ExpectedReason(open_positions[k].tp_price, open_positions[k].sl_price,
                                 open_positions[k].highest, CurPx) = None
       /\ (/\ Len(orders') > Len(orders)
           /\ orders'[Len(orders')].side = "BUY") =>
            \A pid \in GetOpenPositions(state) :
                pid \in DOMAIN lv_seen /\ lv_seen[pid].tick = ticks]_vars

\* cash of all strategies
CashNow == balances["momentum"] + balances["ma"]

\* qty*price of the open positions entered before bar i
HeldValueBefore(i) ==
    SumTo([k \in 1..Len(open_positions) |->
              IF open_positions[k].entry_index < i
              THEN Proceeds(CurPx, open_positions[k].qty) ELSE 0],
          1, Len(open_positions))

\* what the entries of bar i took out of the balances
DebitedAt(i) ==
    SumTo([k \in 1..Len(bt_entries) |->
              IF bt_entries[k].index = i THEN bt_entries[k].need ELSE 0],
          1, Len(bt_entries))

\* C13: the backtest records exactly one equity snapshot per bar, gated bars
\* included; the snapshot is the cash plus qty*price of the positions open
\* after the bar's exit phase, and is taken before the bar's entries: a
\* position opened on the bar is in it only as the cash it was bought with.
C13_EquitySnapshot ==
    mode = "backtest" =>
        /\ pc \in {"exits", "snapshot"} => Len(equity_curve) = Len(bars) - 1
        /\ pc = "entries" =>
              /\ Len(equity_curve) = Len(bars)
              /\ equity_curve[Len(bars)] = CashNow + HeldValueBefore(CurIndex + 1)
        /\ (pc = "bar" /\ Len(bars) >= 1) =>
              /\ Len(equity_curve) = Len(bars)
              /\ equity_curve[Len(bars)] =
                    CashNow + DebitedAt(CurIndex) + HeldValueBefore(CurIndex)
        /\ (pc = "done" /\ summary.returned) => Len(equity_curve) = Len(bars)

\* a bar on which one position was closed and another opened
C13_Witness ==
    /\ mode = "backtest" /\ pc = "bar" /\ Len(bars) >= 1
    /\ \E j \in 1..Len(bt_exits) : bt_exits[j].index = CurIndex
    /\ \E k \in 1..Len(bt_entries) : bt_entries[k].index = CurIndex

\* the bars on which the claim's gate closes: atr_pct undefined (fewer than
\* lookback + 1 bars, or a last close <= 0) or below min_atr_pct
GateCase(win) ==
    \/ Len(win) < AtrLookback + 1
    \/ win[Len(win)].close <= 0
    \/ SumTo([k \in 2..Len(win) |-> TrueRange(win, k)],
             Len(win) - AtrLookback + 1, Len(win)) * BpsOne
          < MinAtrPct * AtrLookback * win[Len(win)].close

\* C14: on a backtest bar whose atr_pct is undefined or below min_atr_pct the
\* entry phase enters nothing and changes no balance, position or last-entry
\* state, while the bar's exit phase and equity snapshot have been performed.
C14_GateSkipsEntries ==
    /\ []((mode = "backtest" /\ pc = "entries" /\ GateCase(bars)) =>
            /\ Len(equity_curve) = Len(bars)
            /\ \A k \in 1..Len(open_positions) :
                  ExpectedReason(open_positions[k].tp_price, open_positions[k].sl_price,
                                 open_positions[k].highest, CurPx) = None)
    /\ [][(mode = "backtest" /\ pc = "entries" /\ GateCase(bars)) =>
            UNCHANGED <<balances, open_positions, last_entry_bar, trades_count,
                        bt_entries>>]_vars

\* a processed bar that the gate closed although the ma signal was true and
\* the strategy was free to enter
C14_Witness ==
    /\ mode = "backtest" /\ pc = "bar" /\ Len(bars) >= 1
    /\ GateCase(bars)
    /\ BtSignal("ma", bars)
    /\ CanEnter("ma", CurIndex, last_entry_bar, open_positions)
    /\ Len(equity_curve) = Len(bars)
    /\ bt_entries = <<>>

\* qty*entry_price plus the taker fee on it
CostWithFee(qty, entry_price) ==
    Proceeds(entry_price, qty) + MulBps(Proceeds(entry_price, qty), TakerFeePct)

\* C15: for balance > 0 and entry_price > 0 the quantity returned by
\* compute_position_size_by_risk costs, fee included, no more than the balance.
C15_Affordable ==
    (calc.fn = "size" /\ calc.balance > 0 /\ calc.entry_price > 0) =>
        CostWithFee(calc.qty, calc.entry_price) <= calc.balance

C17_RoundingTruncates ==
    /\ calc.fn = "round" =>
          /\ calc.r <= calc.qty
          /\ calc.step > 0 => calc.r % calc.step = 0
          /\ (calc.step > 0 /\ (calc.qty \div calc.step) * calc.step < calc.min_qty)
                => calc.r = 0
    /\ calc.fn = "risk_round" => calc.r <= calc.qty

\* the claim's "do not enter" outcomes for strategy s at the current price:
\* the sizing returns 0, or the rounded quantity is 0, or price*qty is below
\* the minimum notional at the price the exchange quotes
RejectCase(s) ==
    LET price == CurPx
        sz == ComputePositionSizeByRisk(GetBalance(state, s), price,
                                        ComputeSlTpPrices(price).sl_price)
    IN  \/ sz = 0
        \/ RoundQty(sz) = 0
        \/ \A d \in TickerDrifts : Proceeds(price + d, RoundQty(sz)) < MinNotional

\* C18: a zero sizing result or an exchange rejection is a clean "do not
\* enter": in a scan where that is the outcome for a strategy, no buy is filled
\* and no position is recorded for it, and no balance or ledger entry changes.
C18_CleanReject ==
    [][(mode = "live" /\ pc = "scan") =>
          \A s \in Strategies :
              RejectCase(s) =>
                  /\ \A j \in (Len(orders) + 1)..Len(orders') : orders'[j].strategy # s
                  /\ LvCount(state', s) = LvCount(state, s)
                  /\ state'.balances = state.balances
                  /\ state'.ledger = state.ledger]_vars

\* a scan whose order was rejected by the exchange (below the minimum
\* notional) and left no buy for that strategy
C18_Witness ==
    /\ mode = "live" /\ pc = "manage"
    /\ \E j \in 1..Len(rejected) :
          /\ rejected[j].tick = ticks
          /\ \A k \in 1..Len(orders) :
                ~(orders[k].tick = ticks /\ orders[k].side = "BUY"
                  /\ orders[k].strategy = rejected[j].strategy)

\* C19: every recorded position has sl_price = entry_price*(1 - sl_pct) and
\* tp_price = entry_price*(1 + tp_pct) for the entry price stored on it, and so
\* sl_price < entry_price < tp_price: the backtest's positions, and the
\* positions the live scan hands to the portfolio for its filled buys.
C19_SlTpFromEntry ==
    /\ \A k \in 1..Len(open_positions) :
          /\ open_positions[k].sl_price
                = MulBps(open_positions[k].entry_price, BpsOne - StopLossPct)
          /\ open_positions[k].tp_price
                = MulBps(open_positions[k].entry_price, BpsOne + TakeProfitPct)
          /\ open_positions[k].sl_price < open_positions[k].entry_price
          /\ open_positions[k].entry_price < open_positions[k].tp_price
    /\ \A j \in 1..Len(orders) :
          orders[j].side = "BUY" =>
              /\ orders[j].sl_price = MulBps(orders[j].price, BpsOne - StopLossPct)
              /\ orders[j].tp_price = MulBps(orders[j].price, BpsOne + TakeProfitPct)

\* C20: a successful entry debits exactly qty*entry_price + entry_fee from the
\* entering strategy's balance and records the position (in the backtest with
\* highest = entry_price) in the same step: do_enter in the backtest, a filled
\* buy of scan_and_trade in the live flow.
C20_EntryAtomic ==
    [][/\ \A k \in (Len(bt_entries) + 1)..Len(bt_entries') :
            LET e == bt_entries'[k]
            IN  /\ balances[e.strategy] - balances'[e.strategy]
                      = CostWithFee(e.qty, e.entry_price)
                /\ \E j \in 1..Len(open_positions') :
                      /\ open_positions'[j].id = e.id
                      /\ open_positions'[j].qty = e.qty
                      /\ open_positions'[j].highest = e.entry_price
       /\ \A k \in (Len(orders) + 1)..Len(orders') :
            LET b == orders'[k]
            IN  b.side = "BUY" =>
                  /\ GetBalance(state, b.strategy) - GetBalance(state', b.strategy)
                        = CostWithFee(b.qty, b.price)
                  /\ \E pid \in GetOpenPositions(state') \ GetOpenPositions(state) :
                        /\ state'.positions[pid].strategy = b.strategy
                        /\ state'.positions[pid].entry_price = b.price
                        /\ state'.positions[pid].qty = b.qty]_vars

\* the number of "exit" ledger events of pid in a live portfolio state
ExitEvents(st, pid) ==
    Cardinality({j \in 1..Len(st.ledger) :
                    st.ledger[j].event = "exit" /\ st.ledger[j].pid = pid})

\* C21: every close credits exit_price*qty - exit_fee to the position's
\* strategy balance, with realized pnl = (exit_price*qty - exit_fee) -
\* (entry_price*qty + entry_fee), marks the position closed and appends one
\* "exit" ledger event: for the exits of the backtest and for the closes the
\* live exit manager reports through PortfolioManager.close_position.
C21_CloseCredits ==
    [][/\ \A k \in (Len(bt_exits) + 1)..Len(bt_exits') :
            LET r == bt_exits'[k]
                gross == (r.ex_px * r.qty) \div QtyScale
                net == gross - MulBps(gross, TakerFeePct)
            IN  /\ r.credit = net
                /\ balances'[r.strategy] - balances[r.strategy] = net
                /\ \E j \in 1..Len(bt_entries) :
                      /\ bt_entries[j].id = r.id
                      /\ r.pnl = net - (bt_entries[j].need)
                      /\ bt_entries[j].need
                            = (bt_entries[j].entry_price * r.qty) \div QtyScale
                              + bt_entries[j].entry_fee
       /\ \A k \in (Len(trades_saved) + 1)..Len(trades_saved') :
            LET t == trades_saved'[k]
                gross == (t.exit_price * t.qty) \div QtyScale
                net == gross - MulBps(gross, TakerFeePct)
            IN  /\ state'.positions[t.pid].status = "closed"
                /\ ExitEvents(state', t.pid) = ExitEvents(state, t.pid) + 1
                /\ GetBalance(state', t.strategy) - GetBalance(state, t.strategy)
                      = net]_vars

\* C22: for every configured pair of strategy weights the initial strategy
\* balances of a backtest sum to initial_balance, so a run with no trades
\* reports total_pnl = 0.
C22_WeightedSplit ==
    calc.fn = "split" =>
        /\ calc.balances["momentum"] + calc.balances["ma"] = InitialBalance
        /\ calc.summary.total_pnl = 0

\* a step that is one call of check_daily_loss_guard by a direct caller
IsGuardCall == api_calls' = api_calls + 1 /\ calc'.fn = "guard"
\* an earlier call was made on the current UTC day
CalledToday == calc.fn = "guard" /\ calc.day = guard.day

\* C23: with a drawdown limit > 0 the first call of a UTC day anchors
\* day_start_equity to the current equity and passes; every later call of
\* that day halts iff equity <= day_start_equity * (1 - limit) and leaves the
\* anchor unchanged; this for the portfolio main.py wires the guard to as
\* for one that reports its equity.
C23_AnchorAndHalt ==
    [][IsGuardCall /\ guard.max_dd > 0 =>
          IF ~CalledToday
          THEN calc'.ok /\ guard'.start_equity = guard.equity
          ELSE /\ guard'.start_equity = guard.start_equity
               /\ calc'.ok = ~(guard.equity
                                 <= MulBps(guard.start_equity,
                                           BpsOne - guard.max_dd))]_vars

\* C24: once check_daily_loss_guard has returned halt on a UTC day, every
\* later check of that same day returns halt too, even if equity has
\* recovered above the limit; only the day rollover clears the halt.
C24_HaltLatches ==
    [][IsGuardCall /\ (\E k \in 1..Len(guard.halts) : guard.halts[k].day = guard.day)
          => ~calc'.ok]_vars

\* C25: the first check_daily_loss_guard call after the UTC day has changed
\* passes and re-anchors day_start_equity to the equity at that call,
\* whatever the previous day's anchor or halt; a call that is not the first
\* of its day leaves the anchor as it was.
C25_RolloverReanchors ==
    [][IsGuardCall /\ guard.max_dd > 0 /\ calc.fn = "guard" =>
          IF calc.day # guard.day
          THEN calc'.ok /\ guard'.start_equity = guard.equity
          ELSE guard'.start_equity = guard.start_equity]_vars

\* the guard of the live run said halt in the scan of main-loop iteration t
HaltedAt(t) == \E k \in 1..Len(guard.halts) : guard.halts[k].tick = t

MomentumHolds ==
    /\ Len(calc.win) >= calc.lookback + 1
    /\ calc.win[Len(calc.win) - calc.lookback].close > 0
    /\ (calc.win[Len(calc.win)].close - calc.win[Len(calc.win) - calc.lookback].close)
          * 100
         >= calc.threshold * calc.win[Len(calc.win) - calc.lookback].close

\* C27: the momentum signal is true iff the window has at least lookback+1
\* bars, close[-(lookback+1)] > 0 and the percent change from it to close[-1]
\* is >= threshold; it is false on a shorter window; and
\* Backtester._sig_momentum and StrategyManager.signal_momentum agree on every
\* window and configuration.
C27_MomentumSignal ==
    calc.fn = "momentum" =>
        /\ calc.bt = MomentumHolds
        /\ calc.live = MomentumHolds
        /\ Len(calc.win) < calc.lookback + 1 => ~calc.bt /\ ~calc.live

\* both implementations signal on 100.00 -> 103.00, exactly the threshold
C27_Witness ==
    /\ calc.fn = "momentum" /\ calc.bt /\ calc.live
    /\ Len(calc.win) = calc.lookback + 1
    /\ calc.win[1].close = 100 * Cents
    /\ calc.win[Len(calc.win)].close = 100 * Cents + calc.threshold * Cents

\* the MA-cross condition on the window of the last direct call for the
\* configured windows, from the closes themselves
MaHolds ==
    /\ Len(calc.win) >= calc.ma_short /\ Len(calc.win) >= calc.ma_long
    /\ SumTo(CloseOf(calc.win), Len(calc.win) - calc.ma_short + 1, Len(calc.win))
          * calc.ma_long
         > SumTo(CloseOf(calc.win), Len(calc.win) - calc.ma_long + 1, Len(calc.win))
             * calc.ma_short

\* C28: the MA-cross signal is true iff the window holds at least short_n and
\* long_n bars and mean(last short_n closes) > mean(last long_n closes); it is
\* false if either window is too short; and the backtest's _sig_ma and the
\* live signal_ma_cross use the same short_n/long_n and agree on every window
\* and configuration.
C28_MaCrossSignal ==
    calc.fn = "ma" =>
        /\ calc.live = MaHolds
        /\ calc.bt = MaHolds
        /\ calc.bt = calc.live

\* the RSI the last direct call asked the gate about is undefined: too few
\* bars or a value that is not finite; likewise either MACD line
RsiUndefined == Len(calc.win) < RsiPeriod + 1 \/ calc.rsi_raw = NaN
MacdUndefined ==
    \/ Len(calc.win) < Max(MacdFast, Max(MacdSlow, MacdSignal)) + 5
    \/ calc.macd_raw[1] = <<>> \/ calc.macd_raw[2] = <<>>

\* C29: the RSI and MACD gates pass when disabled by configuration; when a
\* gate is enabled and its indicator is undefined (too few bars or a value
\* that is not finite) the gate blocks, and neither strategy block of the scan
\* enters on that window.
C29_GatesFailClosed ==
    calc.fn = "filters" =>
        /\ ~calc.use_rsi => calc.rsi_ok
        /\ ~calc.use_macd => calc.macd_ok
        /\ calc.use_rsi /\ RsiUndefined
              => ~calc.rsi_ok /\ \A s \in Strategies : ~calc.enters[s]
        /\ calc.use_macd /\ MacdUndefined
              => ~calc.macd_ok /\ \A s \in Strategies : ~calc.enters[s]

\* the momentum signal fires on a window too short for the RSI, the MACD gate
\* is off, the RSI gate is on: the gate blocks and nothing is entered
C29_Witness ==
    /\ calc.fn = "filters" /\ calc.use_rsi /\ ~calc.use_macd
    /\ RsiUndefined /\ calc.signal["momentum"]
    /\ ~calc.rsi_ok /\ ~calc.enters["momentum"]

\* the position of symbol sym in the configured universe
UniverseIndex(sym) == CHOOSE k \in 1..Len(universe) : universe[k] = sym

\* C30: an exception while one symbol is evaluated skips only that symbol for
\* that tick and leaves balances, positions and ledger as they were; every
\* later symbol of the universe is still evaluated in the same scan, every
\* open position is still evaluated by the exit management of the same tick
\* whatever exception an earlier position met, and the main loop goes on.
C30_FailureIsolation ==
    [][/\ \A n \in (Len(log) + 1)..Len(log') :
            log'[n].src = "Strategy" =>
               /\ state' = state
               /\ pc' = "manage"
               /\ \A k \in 1..Len(universe) :
                     UniverseIndex(log'[n].symbol) < k =>
                        \E m \in (Len(resumed) + 1)..Len(resumed') :
                           /\ resumed'[m].symbol = universe[k]
                           /\ resumed'[m].tick = ticks
       /\ \A n \in (Len(log) + 1)..Len(log') :
            log'[n].src = "Exit" =>
               /\ pc' = "loop"
               /\ \A pid \in GetOpenPositions(state) :
                     /\ pid \in DOMAIN lv_seen'
                     /\ lv_seen'[pid].tick = ticks
                     /\ lv_seen'[pid].price = CurPx]_vars

\* one tick of a run over <<dead symbol, traded symbol, dead symbol>>: the
\* scan logged the fetch failure of the first symbol, still bought the
\* second and went on to the third after open_position had raised, and the
\* exit management logged an exception for each of two positions and sold
\* both
C30_Witness ==
    /\ universe = <<DeadSymbol, Symbol, OtherDeadSymbol>> /\ pc = "loop"
    /\ \E m \in 1..Len(resumed) :
          resumed[m].symbol = OtherDeadSymbol /\ resumed[m].tick = ticks
    /\ \E n \in 1..Len(log) :
          log[n].src = "Strategy" /\ log[n].symbol = DeadSymbol /\ log[n].tick = ticks
    /\ \E j \in 1..Len(orders) :
          orders[j].side = "BUY" /\ orders[j].symbol = Symbol /\ orders[j].tick = ticks
    /\ \E a, b \in 1..Len(orders) :
          /\ orders[a].side = "SELL" /\ orders[b].side = "SELL"
          /\ orders[a].tick = ticks /\ orders[b].tick = ticks
          /\ orders[a].pid # orders[b].pid
    /\ Cardinality({n \in 1..Len(log) : log[n].src = "Exit" /\ log[n].tick = ticks}) = 2

\* C31: open and close are each applied as one unit: whatever point a live
\* run is at, the portfolio state it has persisted never shows a filled buy
\* without a recorded position, nor a filled sell whose position is not marked
\* closed with an "exit" event in the ledger.
C31_NoHalfApplied ==
    /\ \A j \in 1..Len(orders) :
          orders[j].side = "BUY" =>
              \E pid \in DOMAIN state.positions :
                  /\ state.positions[pid].strategy = orders[j].strategy
                  /\ state.positions[pid].entry_price = orders[j].price
                  /\ state.positions[pid].qty = orders[j].qty
    /\ \A j \in 1..Len(orders) :
          orders[j].side = "SELL" =>
              /\ state.positions[orders[j].pid].status = "closed"
              /\ ExitEvents(state, orders[j].pid) = 1

C33_CancelBetweenTicks ==
    [][pc' = "stopped" => pc = "loop"]_vars

C35_TrailingPerPosition ==
    \A pid \in DOMAIN lv_seen :
        lv_seen[pid].n = 1 =>
            lv_seen[pid].highest
                = Max(state.positions[pid].entry_price, lv_seen[pid].price)

\* what identifies the positions a strategy holds in the backtest
PositionsOf(positions, s) ==
    {[id |-> positions[k].id, qty |-> positions[k].qty,
      entry_price |-> positions[k].entry_price, tp_price |-> positions[k].tp_price,
      sl_price |-> positions[k].sl_price] :
        k \in {j \in 1..Len(positions) : positions[j].strategy = s}}

\* strategy s entered or exited in this step of the backtest
ActedIn(s) ==
    \/ \E k \in (Len(bt_entries) + 1)..Len(bt_entries') : bt_entries'[k].strategy = s
    \/ \E k \in (Len(bt_exits) + 1)..Len(bt_exits') : bt_exits'[k].strategy = s

\* C36: strategies are independent sub-accounts in the backtest: a step in
\* which a strategy neither enters nor exits leaves its balance, positions,
\* last-entry bar and trade count as they were, whatever the other strategy
\* does in that step; and on every bar a strategy enters exactly when its own
\* balance, cooldown, position and signal allow it at the start of the entry
\* phase, whether or not the other strategy enters on that bar.
C36_IndependentStrategies ==
    [][mode = "backtest" =>
         /\ \A s \in Strategies :
               ~ActedIn(s) =>
                   /\ balances'[s] = balances[s]
                   /\ last_entry_bar'[s] = last_entry_bar[s]
                   /\ trades_count'[s] = trades_count[s]
                   /\ PositionsOf(open_positions', s) = PositionsOf(open_positions, s)
         /\ pc = "entries" =>
               \A s \in Strategies :
                   BtEntry(s, bars, CurIndex, balances[s], last_entry_bar,
                           open_positions).ok
                   <=> \E k \in (Len(bt_entries) + 1)..Len(bt_entries') :
                          bt_entries'[k].strategy = s]_vars

\* both strategies entered on one bar, and on another bar only one of them did
C36_Witness ==
    /\ mode = "backtest"
    /\ \E j, k \in 1..Len(bt_entries) :
          /\ bt_entries[j].index = bt_entries[k].index
          /\ bt_entries[j].strategy # bt_entries[k].strategy
    /\ \E j \in 1..Len(bt_entries) :
          \A k \in 1..Len(bt_entries) :
              k # j => bt_entries[k].index # bt_entries[j].index

\* C37: in live, a position whose exit condition fired and was processed by
\* manage_positions is no longer an open position of the portfolio, and over
\* all later cycles it gets exactly one sell order and one saved trade record.
C37_ExitOnce ==
    \A pid \in DOMAIN lv_seen :
        (\E k \in 1..Len(trades_saved) : trades_saved[k].pid = pid) =>
            /\ pid \notin GetOpenPositions(state)
            /\ Cardinality({k \in 1..Len(orders) :
                              orders[k].side = "SELL" /\ orders[k].pid = pid}) = 1
            /\ Cardinality({k \in 1..Len(trades_saved) :
                              trades_saved[k].pid = pid}) = 1

\* C38: in live, every buy that fills is recorded as exactly one open position
\* of its (symbol, strategy) in the portfolio, so that the following scans see
\* the position and buy nothing more for the pair while it is held.
C38_FilledBuyRecorded ==
    \A s \in Strategies :
        LvUnsoldBuys(s) # {} =>
            /\ LvCount(state, s) = 1
            /\ \A j \in LvUnsoldBuys(s) :
                  \E pid \in GetOpenPositions(state) :
                      /\ state.positions[pid].strategy = s
                      /\ state.positions[pid].symbol = orders[j].symbol
                      /\ state.positions[pid].qty = orders[j].qty
            /\ Cardinality(LvUnsoldBuys(s)) = 1

\* the realized pnl of a list of exit records, and the cost (entry_price*qty +
\* entry_fee) of a list of positions
PnlOf(recs) == SumTo([k \in 1..Len(recs) |-> recs[k].pnl], 1, Len(recs))
CostOf(positions) ==
    SumTo([k \in 1..Len(positions) |->
              Proceeds(positions[k].entry_price, positions[k].qty)
              + positions[k].entry_fee], 1, Len(positions))

\* what a finished run must satisfy: the entries and exit records it made,
\* its summary
ConservedAtEnd(entries, exits, sm) ==
    /\ sm.total_pnl = sm.final_balance - InitialBalance
    /\ sm.total_pnl = PnlOf(exits)
    /\ \A s \in Strategies :
          /\ sm.trades[s] = Cardinality({k \in 1..Len(entries) : entries[k].strategy = s})
          /\ sm.trades[s] = Cardinality({k \in 1..Len(exits) : exits[k].strategy = s})

\* C39: capital is conserved in the backtest: at every tick boundary the
\* strategy balances plus the cost (entry_price*qty + entry_fee) of the open
\* positions equal initial_balance plus the realized pnl of the closed ones;
\* at the end total_pnl = final_balance - initial_balance is the sum of the
\* realized pnl of all trades, and each strategy's trade count is the number
\* of positions it opened and closed.  For the run of the configured weights
\* bar by bar, and for whole runs under each pair of weights.
C39_CapitalConserved ==
    /\ (mode = "backtest" /\ pc = "bar") =>
          balances["momentum"] + balances["ma"] + CostOf(open_positions)
              = InitialBalance + PnlOf(bt_exits)
    /\ (mode = "backtest" /\ pc = "done" /\ summary.returned) =>
          ConservedAtEnd(bt_entries, bt_exits, summary)
    /\ calc.fn = "run_backtest" =>
          /\ calc.locals.bal["momentum"] + calc.locals.bal["ma"]
                + CostOf(calc.locals.pos)
                = InitialBalance + PnlOf(calc.locals.exits)
          /\ ConservedAtEnd(calc.result.entries, calc.result.exits,
                            calc.result.summary)

\* a direct call that changed the stored positions and nothing else of the
\* portfolio: a save_position
IsSavePosition ==
    /\ pc = "api" /\ pc' = "api" /\ api_calls' = api_calls + 1
    /\ state'.positions # state.positions
    /\ state'.balances = state.balances /\ state'.ledger = state.ledger

\* C40: save_position gives every position a distinct id: each call adds one
\* stored position and leaves every earlier position record as it was, also
\* when several calls fall into one clock millisecond.
C40_DistinctIds ==
    [][IsSavePosition =>
          /\ Cardinality(DOMAIN state'.positions)
                = Cardinality(DOMAIN state.positions) + 1
          /\ \A pid \in DOMAIN state.positions :
                /\ pid \in DOMAIN state'.positions
                /\ state'.positions[pid] = state.positions[pid]]_vars

====
